---- MODULE Spec2Model ----
(***************************************************************************)
(* RouteGuard: the nftables kill-switch controller, the route-leak scan    *)
(* and the foreground runner of src/routeguard_core.py, with the callers   *)
(* of src/routeguard_cli.py that act on the same firewall table.           *)
(*                                                                         *)
(* Environment assumptions of the runner specifications:                   *)
(*   - the process is privileged (routeguard_cli.py:76) and the callers    *)
(*     validated the dependencies (routeguard_cli.py:77-79), so `nft` is   *)
(*     on PATH while a runner runs; the controller harness SpecFw also     *)
(*     covers a missing binary;                                            *)
(*   - the logger callable returns normally;                               *)
(*   - under Spec every external command can be launched; under SpecFaults *)
(*     subprocess.run may also raise OSError at any launch; SpecPinned     *)
(*     adds a state file the process can neither write nor unlink.         *)
(*                                                                         *)
(* SpecFront puts the front ends before the runner: main() of              *)
(* routeguard_cli.py and the start and stop buttons of routeguard_gui.py,  *)
(* the latter also when the process is not privileged. SpecCompile,        *)
(* SpecScan and SpecBuild apply the rule compiler, the route scan and the  *)
(* policy construction on their own to inputs drawn from bounded sets.     *)
(* SpecStore calls the state store on its own on hosts whose candidate     *)
(* paths differ in what they allow, and SpecGui runs the worker thread of  *)
(* routeguard_gui.py against the host thread that drains its log queue.    *)
(* SpecParse applies the parser of the WireGuard file to files of a few    *)
(* lines, SpecApply calls apply_nft_rules step by step for callers with    *)
(* and without privilege, SpecStop runs the runner beside routeguard-cli   *)
(* stop alone, and SpecTwo beside a second runner instance.                *)
(***************************************************************************)
EXTENDS Integers, Sequences, FiniteSets, TLC

VARIABLES
    \* ---- the host ----
    table,          \* the managed table inet routeguard: Absent or {its ruleset}
    nftAvail,       \* command_exists('nft')
    files,          \* STATE_PATHS -> content of the state file at that path
    faulty,         \* whether launching an external command may raise OSError
    \* ---- RouteGuardRunner ----
    cfg,            \* self.cfg (GeneratedConfig)
    opts,           \* auto_up_vpn, auto_down_vpn_on_exit, cleanup_nft_on_exit, main_thread
    stop_event,     \* self.stop_event.is_set()
    signal_installed, \* self._signal_installed
    pc,             \* position of run()
    ret,            \* who called apply_nft_rules: "startup" or "heal"
    elapsed,        \* _wait_for_iface: half seconds since t0
    warned,         \* run(): the local set `warned`
    tick,           \* run(): index of the sleep loop
    exc,            \* the exception in flight ("none" if none)
    outcome,        \* what run() returned or raised ("running" before)
    \* ---- observation (history) ----
    hist,           \* record of what this run has done so far
    calls,          \* controller harness: the calls made, with their results
    \* ---- the front end that starts the runner ----
    front           \* which front end, its privilege, where it is, its exit code

hostVars == <<table, nftAvail, files, faulty>>
runVars  == <<cfg, opts, stop_event, signal_installed, pc, ret, elapsed, warned, tick, exc, outcome>>
vars     == <<table, nftAvail, files, faulty, cfg, opts, stop_event, signal_installed,
              pc, ret, elapsed, warned, tick, exc, outcome, hist, calls, front>>

-----------------------------------------------------------------------------
(* Bounds of the model *)

MaxPoll == 2        \* the caller's interval ranges up to MaxPoll
MaxCalls == 3       \* length of a controller-harness call sequence
MaxEndpoints == 2   \* length of the endpoint list of a compiled policy
MaxRoutes == 2      \* length of a route list handed to the detector
MaxPeers == 2       \* number of [Peer] sections of a WireGuard file
MaxRuns == 2        \* workers started in one GUI session
MaxLogLines == 2    \* log lines of one run of a GUI worker
MaxHostLines == 1   \* lines the GUI host thread puts on the queue itself
MaxLines == 4       \* lines of a WireGuard file handed to the parser

(* Program constants *)

TicksPerSecond == 10        \* range(max(1, int(poll_interval_sec * 10)))
IfaceTimeoutSec == 10       \* _wait_for_iface(timeout_sec=10)
IfacePollsPerSec == 2       \* time.sleep(0.5)

\* The tables named inet routeguard in the live ruleset: none, or the one loaded.
Absent == {}

\* Interface names are character sequences, so that sanitising one is computed.
wg0  == <<"w", "g", "0">>
wgq  == <<"w", "\"", "g", "0">>
eth0 == <<"e", "t", "h", "0">>
lo   == <<"l", "o">>
NoName == <<>>

ROUTEGUARD_TABLE == <<"inet", "routeguard">>
PRIVATE_V4_CIDRS == <<"10.0.0.0/8", "172.16.0.0/12", "192.168.0.0/16">>
PRIVATE_V6_CIDR == "fc00::/7"
LINK_LOCAL_V6 == <<"fe80::/10", "ff00::/8">>
STATE_PATHS == <<"/run/routeguard-auto/state.json", "/tmp/routeguard-auto-state.json">>
PathIdx == 1..Len(STATE_PATHS)

-----------------------------------------------------------------------------
(* RuleCompiler *)

\* str.replace('"', '')
StripQuotes(name) == SelectSeq(name, LAMBDA c : c # "\"")

\* Mutant: every endpoint is taken for an IPv4 address.
IsV6LiteralNever(ip) == FALSE

\* ':' in ep.ip
IsV6Literal(ip) == \E i \in 1..Len(ip) : ip[i] = ":"

\* str.lower() on the protocol names in use
Lower(proto) == CASE proto = "UDP" -> "udp" [] proto = "TCP" -> "tcp" [] OTHER -> proto

\* Mutant: the endpoint rules are emitted last to first.
EndpointRulesReversed(eps) ==
    [i \in 1..Len(eps) |->
        LET e == eps[Len(eps) + 1 - i]
        IN <<"endpoint-accept", IF IsV6Literal(e.ip) THEN "ip6" ELSE "ip",
             e.ip, Lower(e.proto), e.port>>]

EndpointRules(eps) ==
    [i \in 1..Len(eps) |->
        <<"endpoint-accept", IF IsV6Literal(eps[i].ip) THEN "ip6" ELSE "ip",
          eps[i].ip, Lower(eps[i].proto), eps[i].port>>]

\* Mutant: the text depends on how often the compiler was called before.
build_nft_script_stateful(c) ==
    LET iface == StripQuotes(c.vpn_iface)
    IN [family |-> ROUTEGUARD_TABLE[1], name |-> ROUTEGUARD_TABLE[2], policy |-> "accept",
        rules |-> << <<"oifname-accept", lo>>, <<"oifname-accept", iface>> >>
                  \o (IF Len(calls) = 0 THEN << >> ELSE << <<"ip6-daddr-set-accept", LINK_LOCAL_V6>> >>)
                  \o EndpointRules(c.vpn_endpoints)
                  \o << <<"oifname-neq-drop", iface>> >>]

\* The rule lines of the chain rg_output, in the order they are emitted.
build_nft_script(c) ==
    LET iface == StripQuotes(c.vpn_iface)
        head == << <<"oifname-accept", lo>>,
                   <<"oifname-accept", iface>>,
                   <<"ip6-daddr-set-accept", LINK_LOCAL_V6>> >>
        dhcp == IF c.allow_dhcp
                THEN << <<"udp-accept", 68, 67>>, <<"udp-accept", 546, 547>> >>
                ELSE << >>
        lan  == IF c.allow_lan
                THEN << <<"ip-daddr-set-accept", PRIVATE_V4_CIDRS>>,
                        <<"ip6-daddr-accept", PRIVATE_V6_CIDR>> >>
                ELSE << >>
    IN [family |-> ROUTEGUARD_TABLE[1], name |-> ROUTEGUARD_TABLE[2],
        policy |-> "accept",
        rules |-> head \o dhcp \o lan \o EndpointRules(c.vpn_endpoints)
                  \o << <<"oifname-neq-drop", iface>> >>]

-----------------------------------------------------------------------------
(* The firewall subsystem as the nft binary shows it to a privileged caller *)

\* nft delete table inet routeguard
NftDeleteTable(t) == [rc |-> IF t = Absent THEN 1 ELSE 0, table |-> Absent]

\* Mutant: a script that is rejected has been loaded all the same.
NftLoadNotAtomic(t, script, accepted) ==
    [rc |-> IF accepted THEN 0 ELSE 1, table |-> {script}]

\* nft -f - : the subsystem accepts the script or rejects it whole; a script
\* loaded onto a table that is there adds its rules to the chain
NftLoad(t, script, accepted) ==
    IF ~accepted THEN [rc |-> 1, table |-> t]
    ELSE IF t = Absent THEN [rc |-> 0, table |-> {script}]
    ELSE [rc |-> 0, table |-> {[old EXCEPT !.rules = old.rules \o script.rules] : old \in t}]

\* nft list table inet routeguard
NftListTable(t) == [rc |-> IF t = Absent THEN 1 ELSE 0]

\* run_cmd(args, check=...): subprocess.run raises when check is set and rc is not 0
run_cmd(rc, check) == IF check /\ rc # 0 THEN "CalledProcessError" ELSE "none"

(* FirewallController *)

\* Mutant: the return code of nft list is not looked at.
table_exists_ignores_rc(avail, t) == avail

routeguard_table_exists(avail, t) ==
    IF avail THEN NftListTable(t).rc = 0 ELSE FALSE

\* Mutant: the delete is launched with run_cmd's default check=True.
remove_nft_rules_checked(avail, t) ==
    IF ~avail THEN [err |-> "none", table |-> t]
    ELSE LET cp == NftDeleteTable(t)
             e == run_cmd(cp.rc, TRUE)
         IN [err |-> e, table |-> cp.table]

\* Mutant: the delete names another table, so the managed one stays.
remove_nft_rules_other_table(avail, t) == [err |-> "none", table |-> t]

\* remove_nft_rules: what it raises and the table it leaves
remove_nft_rules(avail, t) ==
    IF ~avail THEN [err |-> "none", table |-> t]
    ELSE LET cp == NftDeleteTable(t)
             e == run_cmd(cp.rc, FALSE)
         IN IF e # "none" THEN [err |-> e, table |-> cp.table]
            ELSE [err |-> "none", table |-> cp.table]

\* Mutant: the earlier ruleset is not removed and the script creates the table,
\* which nft refuses when the table is there.
apply_nft_rules_create(avail, t, c, accepted) ==
    IF ~avail THEN [err |-> "nft-not-found", table |-> t]
    ELSE IF t # Absent \/ ~accepted THEN [err |-> "nft-failed", table |-> t]
    ELSE [err |-> "none", table |-> {build_nft_script(c)}]

\* apply_nft_rules run without interleaving: what it raises and the table it leaves
apply_nft_rules(avail, t, c, accepted) ==
    IF ~avail THEN [err |-> "nft-not-found", table |-> t]
    ELSE LET rm == remove_nft_rules(avail, t)
             cp == NftLoad(rm.table, build_nft_script(c), accepted)
         IN IF rm.err # "none" THEN rm
            ELSE IF cp.rc # 0 THEN [err |-> "nft-failed", table |-> cp.table]
            ELSE IF ~routeguard_table_exists(avail, cp.table)
                 THEN [err |-> "table-missing", table |-> cp.table]
                 ELSE [err |-> "none", table |-> cp.table]

-----------------------------------------------------------------------------
(* LeakDetector *)

\* Mutant: the IPv4 targets are used for both families.
SplitDefaultTargetsV4(ipv6) == {"0.0.0.0/1", "128.0.0.0/1"}

SplitDefaultTargets(ipv6) ==
    IF ipv6 THEN {"::/1", "8000::/1"} ELSE {"0.0.0.0/1", "128.0.0.0/1"}

\* r.get('dev') or r.get('oif') or ''
RouteDev(r) == IF r.dev # NoName THEN r.dev ELSE IF r.oif # NoName THEN r.oif ELSE NoName

\* The alert line f"{dst} via dev={dev} gateway={gateway}" as its three fields
AlertLine(r) == <<r.dst, RouteDev(r), IF r.gateway = "" THEN "-" ELSE r.gateway>>

\* Mutant: each line is put before the lines found so far.
RECURSIVE suspicious_routes_prepending(_, _, _)
suspicious_routes_prepending(routes, vpn_iface, ipv6) ==
    IF routes = << >> THEN << >>
    ELSE LET r == Head(routes)
             rest == suspicious_routes_prepending(Tail(routes), vpn_iface, ipv6)
         IN IF /\ r.dst \in SplitDefaultTargets(ipv6)
               /\ RouteDev(r) # NoName
               /\ RouteDev(r) # vpn_iface
            THEN rest \o <<AlertLine(r)>>
            ELSE rest

RECURSIVE suspicious_routes(_, _, _)
suspicious_routes(routes, vpn_iface, ipv6) ==
    IF routes = << >> THEN << >>
    ELSE LET r == Head(routes)
             rest == suspicious_routes(Tail(routes), vpn_iface, ipv6)
         IN IF /\ r.dst \in SplitDefaultTargets(ipv6)
               /\ RouteDev(r) # NoName
               /\ RouteDev(r) # vpn_iface
            THEN <<AlertLine(r)>> \o rest
            ELSE rest

SeqToSet(q) == {q[i] : i \in 1..Len(q)}

\* Python's order of the alert lines: by destination text, then device, then gateway.
\* The ranks are the lexicographic order of the literals ('0' < '1' < '8' < ':').
DstRank(d) ==
    CASE d = "0.0.0.0/1" -> 1 [] d = "128.0.0.0/1" -> 2
      [] d = "8000::/1" -> 3 [] d = "::/1" -> 4 [] OTHER -> 5
CharRank(c) ==
    CASE c = "0" -> 1 [] c = "1" -> 2 [] c = "e" -> 3 [] c = "g" -> 4
      [] c = "h" -> 5 [] c = "l" -> 6 [] c = "o" -> 7 [] c = "t" -> 8
      [] c = "w" -> 9 [] OTHER -> 0
RECURSIVE NameLess(_, _)
NameLess(a, b) ==
    IF b = << >> THEN FALSE
    ELSE IF a = << >> THEN TRUE
    ELSE IF CharRank(Head(a)) # CharRank(Head(b)) THEN CharRank(Head(a)) < CharRank(Head(b))
    ELSE NameLess(Tail(a), Tail(b))
GwRank(g) == CASE g = "-" -> 1 [] g = "192.168.1.1" -> 2 [] g = "fe80::1" -> 3 [] OTHER -> 4
AlertLess(a, b) ==
    IF a[1] # b[1] THEN DstRank(a[1]) < DstRank(b[1])
    ELSE IF a[2] # b[2] THEN NameLess(a[2], b[2])
    ELSE GwRank(a[3]) < GwRank(b[3])

\* sorted(S) for a set of alert lines
RECURSIVE SortedAlerts(_)
SortedAlerts(S) ==
    IF S = {} THEN << >>
    ELSE LET m == CHOOSE x \in S : \A y \in S \ {x} : AlertLess(x, y)
         IN <<m>> \o SortedAlerts(S \ {m})

-----------------------------------------------------------------------------
(* Inputs of the model *)

Modes == {"monitor", "protect", "off", "bogus"}

ip4a == <<"2", "0", "3", ".", "0", ".", "1", "1", "3", ".", "5">>
ip6a == <<"2", "0", "0", "1", ":", "d", "b", "8", ":", ":", "1">>
Ep(ip, port) == [ip |-> ip, port |-> port, proto |-> "udp"]

\* The policy of the runner under study, and the one an earlier run left loaded.
Policy(iface, lan, dhcp, eps) ==
    [vpn_iface |-> iface, allow_lan |-> lan, allow_dhcp |-> dhcp, vpn_endpoints |-> eps]
RunnerPolicy == Policy(wg0, TRUE, TRUE, <<Ep(ip4a, 51820)>>)
EarlierPolicy == Policy(wgq, FALSE, FALSE, <<Ep(ip4a, 51820), Ep(ip6a, 51820)>>)

GeneratedConfig(mode, poll, pol) ==
    [mode |-> mode, vpn_iface |-> pol.vpn_iface, poll_interval_sec |-> poll,
     allow_lan |-> pol.allow_lan, allow_dhcp |-> pol.allow_dhcp,
     vpn_endpoints |-> pol.vpn_endpoints]

\* Mutant: the interval of the caller is taken as it is.
IntervalAsGiven(n) == n

\* max(1, int(poll_interval_sec)) of build_generated_config_from_wg
ClampInterval(n) == IF n > 1 THEN n ELSE 1

\* the intervals a caller may hand over (--interval, the interval field)
CallerIntervals == (0 - 1)..MaxPoll

Route(dst, dev, oif, gw) == [dst |-> dst, dev |-> dev, oif |-> oif, gateway |-> gw]
RouteTables4 ==
    { << Route("default", eth0, NoName, "192.168.1.1") >>,
      << Route("default", eth0, NoName, "192.168.1.1"),
         Route("0.0.0.0/1", eth0, NoName, "192.168.1.1") >>,
      << Route("0.0.0.0/1", wg0, NoName, "") >> }
RouteTables6 ==
    { << >>, << Route("::/1", NoName, eth0, "fe80::1") >> }

NoFiles == [i \in PathIdx |-> "none"]
InitialFiles == { NoFiles, [i \in PathIdx |-> "stale"], [NoFiles EXCEPT ![2] = "stale"] }
InitialTables == { Absent, {build_nft_script(GeneratedConfig("protect", 1, EarlierPolicy))} }

NoHist ==
    [table0 |-> Absent,        \* the table when run() was called
     applies |-> 0,            \* calls of apply_nft_rules by this run (capped at 2)
     deletes |-> FALSE,        \* this run launched nft delete table
     writes |-> 0,             \* calls of write_state that stored a record
     iterations |-> FALSE,     \* a monitor-loop iteration was entered
     td |-> << >>,             \* the teardown steps executed, in order
     tdRaised |-> {},          \* the teardown steps that raised
     stopAt |-> "none",        \* the phase run() was in when the stop flag was set
     ticksAfterStop |-> 0,     \* sleeps completed after that, if it was set in the sleep phase
     scansAfterStop |-> 0,     \* scans made after that
     curScan |-> {},           \* the latest scan result of the loop
     alerted |-> << >>,        \* the alert lines logged in the latest cycle of the loop
     failedIn |-> "none",      \* the step that raised the error that ended the run
     ifaceSeen |-> FALSE]      \* _wait_for_iface saw the tunnel interface

LaunchOutcomes == IF faulty THEN {"ran", "oserror"} ELSE {"ran"}

\* The runner called directly, as a privileged process (no front end)
NoFront == [ui |-> "none", cmd |-> "run", root |-> TRUE, at |-> "run", why |-> "none", code |-> {}]

\* What nft shows to, and takes from, this process: without privilege every nft
\* command ends with 'Operation not permitted' and the ruleset is left as it is.
Visible(t) == IF front.root THEN t ELSE Absent
Written(t, new) == IF front.root THEN new ELSE t
Acceptances == IF front.root THEN BOOLEAN ELSE {FALSE}

-----------------------------------------------------------------------------
(* RouteGuardRunner.run *)

\* The states of the lifecycle, by the position of run()
Phase(p) ==
    CASE p = "created" -> "Created"
      [] p \in {"wg_up", "dispatch", "wait_iface", "off_remove"} -> "Starting"
      [] p \in {"apply_rm", "apply_submit", "apply_verify"} ->
            IF ret = "startup" THEN "Starting" ELSE "Monitoring"
      [] p = "write_state" -> "Persisting"
      [] p \in {"loop_check", "heal_check", "scan"} -> "Monitoring"
      [] p \in {"tick_check", "tick_sleep"} -> "Sleeping"
      [] p \in {"td_nft", "td_down", "td_state"} -> "Teardown"
      [] OTHER -> "Terminated"

\* An exception leaves the try block: the finally clause runs next.
\* Mutant: the error is noted and run() goes on to write its state.
RaiseAndGoOn(e, where) ==
    /\ exc' = e
    /\ pc' = "write_state"
    /\ hist' = [hist EXCEPT !.failedIn = where]

Raise(e, where) ==
    /\ exc' = e
    /\ pc' = "td_nft"
    /\ hist' = [hist EXCEPT !.failedIn = where]

\* Mutant: the handlers are installed from whatever thread run() is on.
install_signals_any_thread(installed, onMainThread) == TRUE

\* _install_signals: the new value of _signal_installed; nothing is installed
\* off the main thread, nor twice
install_signals(installed, onMainThread) ==
    IF ~onMainThread \/ installed THEN installed ELSE TRUE

\* Mutant: run() tests the stop flag first and goes to its teardown when set.
StartSkipsWhenStopped ==
    /\ pc = "created"
    /\ signal_installed' = install_signals(signal_installed, opts.main_thread)
    /\ pc' = IF stop_event THEN "td_nft" ELSE IF opts.auto_up_vpn THEN "wg_up" ELSE "dispatch"
    /\ hist' = [hist EXCEPT !.table0 = table]
    /\ UNCHANGED <<hostVars, cfg, opts, stop_event, ret, elapsed, warned, tick, exc, outcome, calls, front>>

\* run(): _install_signals and the two log lines before the try block
Start ==
    /\ pc = "created"
    /\ signal_installed' = install_signals(signal_installed, opts.main_thread)
    /\ pc' = IF opts.auto_up_vpn THEN "wg_up" ELSE "dispatch"
    /\ hist' = [hist EXCEPT !.table0 = table]
    /\ UNCHANGED <<hostVars, cfg, opts, stop_event, ret, elapsed, warned, tick, exc, outcome, calls, front>>

WgUpResults == {"not-found", "ok", "already-up", "failed"} \cup (LaunchOutcomes \ {"ran"})

\* wg_quick_up(self.cfg.vpn_iface, self.logger)
WgQuickUp ==
    /\ pc = "wg_up"
    /\ \E r \in WgUpResults :
         IF r \in {"ok", "already-up"}
         THEN /\ pc' = "dispatch"
              /\ UNCHANGED <<exc, hist>>
         ELSE Raise(IF r = "oserror" THEN "OSError" ELSE "TunnelError", "wg_up")
    /\ UNCHANGED <<hostVars, cfg, opts, stop_event, signal_installed, ret, elapsed, warned, tick, outcome, calls, front>>

\* the if/elif chain on self.cfg.mode
\* Mutant: protect mode goes to apply_nft_rules without waiting for the interface.
DispatchNoWait ==
    /\ pc = "dispatch"
    /\ IF cfg.mode = "protect" THEN pc' = "apply_rm" /\ UNCHANGED <<exc, hist>>
       ELSE IF cfg.mode = "monitor" THEN pc' = "write_state" /\ UNCHANGED <<exc, hist>>
       ELSE IF cfg.mode = "off" THEN pc' = "off_remove" /\ UNCHANGED <<exc, hist>>
       ELSE Raise("UnknownMode", "dispatch")
    /\ elapsed' = 0
    /\ UNCHANGED <<hostVars, cfg, opts, stop_event, signal_installed, ret, warned, tick, outcome, calls, front>>

Dispatch ==
    /\ pc = "dispatch"
    /\ IF cfg.mode = "protect" THEN pc' = "wait_iface" /\ UNCHANGED <<exc, hist>>
       ELSE IF cfg.mode = "monitor" THEN pc' = "write_state" /\ UNCHANGED <<exc, hist>>
       ELSE IF cfg.mode = "off" THEN pc' = "off_remove" /\ UNCHANGED <<exc, hist>>
       ELSE Raise("UnknownMode", "dispatch")
    /\ elapsed' = 0
    /\ UNCHANGED <<hostVars, cfg, opts, stop_event, signal_installed, ret, warned, tick, outcome, calls, front>>

IfaceTimeoutHalfSec == IfaceTimeoutSec * IfacePollsPerSec

\* _wait_for_iface: one pass of the while loop, or the raise after it
WaitForIface ==
    /\ pc = "wait_iface"
    /\ IF elapsed < IfaceTimeoutHalfSec
       THEN \E r \in {"exists", "missing"} \cup (LaunchOutcomes \ {"ran"}) :
              CASE r = "exists" ->
                     /\ pc' = "apply_rm" /\ ret' = "startup" /\ elapsed' = 0
                     /\ hist' = [hist EXCEPT !.ifaceSeen = TRUE]
                     /\ UNCHANGED exc
                [] r = "missing" ->
                     /\ elapsed' = elapsed + 1
                     /\ UNCHANGED <<pc, ret, exc, hist>>
                [] OTHER ->
                     /\ Raise("OSError", "wait_iface")
                     /\ elapsed' = 0 /\ UNCHANGED ret
       ELSE /\ Raise("InterfaceTimeout", "wait_iface")
            /\ elapsed' = 0 /\ UNCHANGED ret
    /\ UNCHANGED <<hostVars, cfg, opts, stop_event, signal_installed, warned, tick, outcome, calls, front>>

\* apply_nft_rules, first part: the nft check and remove_nft_rules
ApplyRemove ==
    /\ pc = "apply_rm"
    /\ \E l \in LaunchOutcomes :
         IF ~nftAvail
         THEN /\ exc' = "ApplyError" /\ pc' = "td_nft"
              /\ hist' = [hist EXCEPT !.failedIn = "apply:" \o ret, !.applies = IF @ < 2 THEN @ + 1 ELSE @]
              /\ UNCHANGED table
         ELSE IF l = "oserror"
         THEN /\ exc' = "OSError" /\ pc' = "td_nft"
              /\ hist' = [hist EXCEPT !.failedIn = "apply:" \o ret, !.applies = IF @ < 2 THEN @ + 1 ELSE @]
              /\ UNCHANGED table
         ELSE LET rm == remove_nft_rules(nftAvail, Visible(table))
              IN /\ table' = Written(table, rm.table)
                 /\ pc' = IF rm.err = "none" THEN "apply_submit" ELSE "td_nft"
                 /\ exc' = rm.err
                 /\ hist' = [hist EXCEPT !.applies = IF @ < 2 THEN @ + 1 ELSE @, !.deletes = TRUE,
                                          !.failedIn = IF rm.err = "none" THEN @ ELSE "apply:" \o ret]
    /\ UNCHANGED <<nftAvail, files, faulty, cfg, opts, stop_event, signal_installed, ret, elapsed, warned, tick, outcome, calls, front>>

\* apply_nft_rules, second part: build_nft_script and nft -f -
ApplySubmit ==
    /\ pc = "apply_submit"
    /\ \E accepted \in Acceptances, l \in LaunchOutcomes :
         IF l = "oserror"
         THEN /\ Raise("OSError", "apply:" \o ret) /\ UNCHANGED table
         ELSE LET cp == NftLoad(table, build_nft_script(cfg), accepted)
              IN /\ table' = Written(table, cp.table)
                 /\ IF cp.rc # 0
                    THEN Raise("ApplyError", "apply:" \o ret)
                    ELSE pc' = "apply_verify" /\ UNCHANGED <<exc, hist>>
    /\ UNCHANGED <<nftAvail, files, faulty, cfg, opts, stop_event, signal_installed, ret, elapsed, warned, tick, outcome, calls, front>>

\* Mutant: apply_nft_rules returns without the check that the table is there.
ApplyVerifyUnchecked ==
    /\ pc = "apply_verify"
    /\ \E l \in LaunchOutcomes :
         IF l = "oserror" THEN Raise("OSError", "apply:" \o ret)
         ELSE /\ pc' = IF ret = "startup" THEN "write_state" ELSE "scan"
              /\ UNCHANGED <<exc, hist>>
    /\ UNCHANGED <<hostVars, cfg, opts, stop_event, signal_installed, ret, elapsed, warned, tick, outcome, calls, front>>

\* apply_nft_rules, last part: the check that the table is there
ApplyVerify ==
    /\ pc = "apply_verify"
    /\ \E l \in LaunchOutcomes :
         IF l = "oserror" THEN Raise("OSError", "apply:" \o ret)
         ELSE IF ~routeguard_table_exists(nftAvail, Visible(table)) THEN Raise("ApplyError", "apply:" \o ret)
         ELSE /\ pc' = IF ret = "startup" THEN "write_state" ELSE "scan"
              /\ UNCHANGED <<exc, hist>>
    /\ UNCHANGED <<hostVars, cfg, opts, stop_event, signal_installed, ret, elapsed, warned, tick, outcome, calls, front>>

\* mode off: remove_nft_rules, then return 0
OffRemove ==
    /\ pc = "off_remove"
    /\ \E l \in LaunchOutcomes :
         IF nftAvail /\ l = "oserror"
         THEN Raise("OSError", "off_remove") /\ UNCHANGED table
         ELSE LET rm == remove_nft_rules(nftAvail, Visible(table))
              IN /\ table' = Written(table, rm.table)
                 /\ pc' = "td_nft"
                 /\ exc' = rm.err
                 /\ hist' = [hist EXCEPT !.deletes = @ \/ nftAvail,
                                          !.failedIn = IF rm.err = "none" THEN @ ELSE "off_remove"]
    /\ UNCHANGED <<nftAvail, files, faulty, cfg, opts, stop_event, signal_installed, ret, elapsed, warned, tick, outcome, calls, front>>

\* _state_path(): the first candidate whose parent directory can be made
StatePath(creatable) ==
    IF \E i \in PathIdx : i \in creatable
    THEN CHOOSE i \in PathIdx : i \in creatable /\ \A j \in PathIdx : j \in creatable => i <= j
    ELSE Len(STATE_PATHS)

\* write_state(self.cfg): p.write_text stores the record, cannot open p, or stops half way
WriteState ==
    /\ pc = "write_state"
    /\ \E creatable \in SUBSET PathIdx, w \in {"stored", "open-failed", "partial"} :
         \* the parent of a file that is there can be made (exist_ok)
         /\ \A i \in PathIdx : files[i] # "none" => i \in creatable
         \* a file that cannot be unlinked cannot be opened for writing either
         /\ files[StatePath(creatable)] = "pinned" => w = "open-failed"
         /\ LET p == StatePath(creatable)
            IN CASE w = "stored" ->
                      /\ files' = [files EXCEPT ![p] = "mine"]
                      /\ pc' = "loop_check"
                      /\ hist' = [hist EXCEPT !.writes = IF @ < 2 THEN @ + 1 ELSE @]
                      /\ UNCHANGED exc
                 [] w = "partial" ->
                      /\ files' = [files EXCEPT ![p] = "partial"]
                      /\ Raise("StateWriteError", "write_state")
                 [] OTHER ->
                      /\ UNCHANGED files
                      /\ Raise("StateWriteError", "write_state")
    /\ warned' = {}
    /\ UNCHANGED <<table, nftAvail, faulty, cfg, opts, stop_event, signal_installed, ret, elapsed, tick, outcome, calls, front>>

\* Mutant: the loop does not test the stop flag.
LoopNeverExits == FALSE

\* while not self.stop_event.is_set()
LoopExits == stop_event

\* the loop test; when it fails, 'Stopping RouteGuard...' and return 0
LoopCheck ==
    /\ pc = "loop_check"
    /\ IF LoopExits
       THEN pc' = "td_nft" /\ UNCHANGED hist
       ELSE /\ pc' = IF cfg.mode = "protect" THEN "heal_check" ELSE "scan"
            /\ hist' = [hist EXCEPT !.iterations = TRUE]
    /\ UNCHANGED <<hostVars, cfg, opts, stop_event, signal_installed, ret, elapsed, warned, tick, exc, outcome, calls, front>>

\* if mode == 'protect' and not routeguard_table_exists(): re-apply
HealCheck ==
    /\ pc = "heal_check"
    /\ \E l \in LaunchOutcomes :
         IF nftAvail /\ l = "oserror"
         THEN Raise("OSError", "heal_check") /\ UNCHANGED ret
         ELSE IF routeguard_table_exists(nftAvail, Visible(table))
         THEN pc' = "scan" /\ UNCHANGED <<ret, exc, hist>>
         ELSE pc' = "apply_rm" /\ ret' = "heal" /\ UNCHANGED <<exc, hist>>
    /\ UNCHANGED <<hostVars, cfg, opts, stop_event, signal_installed, elapsed, warned, tick, outcome, calls, front>>

\* current = set(suspicious_routes(v4) + suspicious_routes(v6))
CurrentAlerts(rt4, rt6, vpn_iface) ==
    SeqToSet(suspicious_routes(rt4, vpn_iface, FALSE) \o suspicious_routes(rt6, vpn_iface, TRUE))

\* for msg in sorted(current - warned): log an ALERT line
NewAlertLines(current, old) == SortedAlerts(current \ old)

\* Mutant: the warned set accumulates.
NextWarnedAccumulates(current, old) == old \cup current

\* warned = current
NextWarned(current, old) == current

\* One scan of both routing tables, the alert lines, and the new warned set
Scan ==
    /\ pc = "scan"
    /\ \E rt4 \in RouteTables4, rt6 \in RouteTables6, l \in LaunchOutcomes :
         IF l = "oserror"
         THEN Raise("OSError", "scan") /\ UNCHANGED <<warned, tick>>
         ELSE LET current == CurrentAlerts(rt4, rt6, cfg.vpn_iface)
              IN /\ warned' = NextWarned(current, warned)
                 /\ hist' = [hist EXCEPT !.curScan = current,
                                          !.alerted = NewAlertLines(current, warned),
                                          !.scansAfterStop =
                                              IF hist.stopAt # "none" /\ @ < 2 THEN @ + 1 ELSE @]
                 /\ tick' = 0
                 /\ pc' = "tick_check"
                 /\ UNCHANGED exc
    /\ UNCHANGED <<hostVars, cfg, opts, stop_event, signal_installed, ret, elapsed, outcome, calls, front>>

\* range(max(1, int(self.cfg.poll_interval_sec * 10)))
SleepTicks(c) ==
    LET n == c.poll_interval_sec * TicksPerSecond IN IF n < 1 THEN 1 ELSE n

\* Mutant: the sleep is not cut into ticks that test the stop flag.
SleepNeverBreaks == FALSE

\* if self.stop_event.is_set(): break
SleepBreaks == stop_event

\* the head of the sleep loop: the next index, and the stop test
TickCheck ==
    /\ pc = "tick_check"
    /\ IF tick < SleepTicks(cfg) /\ ~SleepBreaks
       THEN pc' = "tick_sleep" /\ UNCHANGED tick
       ELSE pc' = "loop_check" /\ tick' = 0
    /\ UNCHANGED <<hostVars, cfg, opts, stop_event, signal_installed, ret, elapsed, warned, exc, outcome, hist, calls, front>>

\* time.sleep(0.1)
TickSleep ==
    /\ pc = "tick_sleep"
    /\ tick' = tick + 1
    /\ pc' = "tick_check"
    /\ hist' = [hist EXCEPT !.ticksAfterStop =
                    IF hist.stopAt = "Sleeping" /\ @ < 3 THEN @ + 1 ELSE @]
    /\ UNCHANGED <<hostVars, cfg, opts, stop_event, signal_installed, ret, elapsed, warned, exc, outcome, calls, front>>

-----------------------------------------------------------------------------
(* The finally clause of run() *)

\* if self.cleanup_nft_on_exit and self.cfg.mode == 'protect': remove_nft_rules
\* Mutant: the table is removed at exit in every mode.
CleanupWantedAnyMode == opts.cleanup_nft_on_exit

CleanupWanted == opts.cleanup_nft_on_exit /\ cfg.mode = "protect"

\* Mutant: no inner try/finally, the exception of the first step leaves run().
NoInnerFinally == "done"

\* What follows the first teardown step when it raised: the inner finally clause
AfterNftRaised == "td_down"

\* The locals of the try block are dead once the finally clause runs.
LeftLoop(h) == [h EXCEPT !.curScan = {}, !.alerted = << >>]

TeardownNft ==
    /\ pc = "td_nft"
    /\ IF CleanupWanted
       THEN \E l \in LaunchOutcomes :
              IF nftAvail /\ l = "oserror"
              THEN /\ exc' = "OSError"
                   /\ pc' = AfterNftRaised
                   /\ hist' = [LeftLoop(hist) EXCEPT !.td = Append(@, "nft"), !.tdRaised = @ \cup {"nft"}]
                   /\ UNCHANGED table
              ELSE LET rm == remove_nft_rules(nftAvail, Visible(table))
                   IN /\ table' = Written(table, rm.table)
                      /\ pc' = IF rm.err = "none" THEN "td_down" ELSE AfterNftRaised
                      /\ exc' = IF rm.err = "none" THEN exc ELSE rm.err
                      /\ hist' = [LeftLoop(hist) EXCEPT
                                     !.td = Append(@, "nft"), !.deletes = @ \/ nftAvail,
                                     !.tdRaised = IF rm.err = "none" THEN @ ELSE @ \cup {"nft"}]
       ELSE pc' = "td_down" /\ hist' = LeftLoop(hist) /\ UNCHANGED <<table, exc>>
    /\ warned' = {}
    /\ UNCHANGED <<nftAvail, files, faulty, cfg, opts, stop_event, signal_installed, ret, elapsed, tick, outcome, calls, front>>

WgDownResults == {"not-found", "down", "not-down"} \cup (LaunchOutcomes \ {"ran"})

\* What follows the second teardown step when it raised: the except clause logs
AfterDownRaised == "td_state"

\* Mutant: no except clause around wg_quick_down, its exception leaves run().
DownPropagates(pending, raised) == raised

\* except Exception as e: the exception of wg_quick_down is logged and dropped;
\* what was in flight (or the return value) stays
DownSwallowed(pending, raised) == pending

\* if self.auto_down_vpn_on_exit: try wg_quick_down except Exception: log
TeardownDown ==
    /\ pc = "td_down"
    /\ IF opts.auto_down_vpn_on_exit
       THEN \E r \in WgDownResults :
              IF r = "oserror"
              THEN /\ pc' = AfterDownRaised
                   /\ exc' = DownSwallowed(exc, "OSError")
                   /\ hist' = [hist EXCEPT !.td = Append(@, "down"), !.tdRaised = @ \cup {"down"}]
              ELSE /\ pc' = "td_state"
                   /\ exc' = exc
                   /\ hist' = [hist EXCEPT !.td = Append(@, "down")]
       ELSE pc' = "td_state" /\ UNCHANGED <<hist, exc>>
    /\ UNCHANGED <<hostVars, cfg, opts, stop_event, signal_installed, ret, elapsed, warned, tick, outcome, calls, front>>

\* Mutant: only the first state file found is unlinked, as read_state reads it.
remove_state_first_found(f) ==
    [i \in PathIdx |->
        IF f[i] # "none" /\ \A j \in PathIdx : j < i => f[j] = "none" THEN "none" ELSE f[i]]

\* remove_state(): unlink every candidate path; a missing file, and a file that
\* cannot be unlinked, are passed over
remove_state(f) == [i \in PathIdx |-> IF f[i] = "pinned" THEN f[i] ELSE "none"]

TeardownState ==
    /\ pc = "td_state"
    /\ files' = remove_state(files)
    /\ hist' = [hist EXCEPT !.td = Append(@, "state")]
    /\ pc' = "done"
    /\ outcome' = IF exc = "none" THEN "returned 0" ELSE exc
    /\ UNCHANGED <<table, nftAvail, faulty, cfg, opts, stop_event, signal_installed, ret, elapsed, warned, tick, exc, calls, front>>

-----------------------------------------------------------------------------
(* What happens around the runner *)

\* RouteGuardRunner.request_stop(), from any thread at any time
RequestStop ==
    /\ ~stop_event
    /\ stop_event' = TRUE
    /\ hist' = [hist EXCEPT !.stopAt = Phase(pc)]
    /\ UNCHANGED <<hostVars, cfg, opts, signal_installed, pc, ret, elapsed, warned, tick, exc, outcome, calls, front>>

\* SIGINT or SIGTERM once _handler is installed: it logs and sets the flag
Signal ==
    /\ signal_installed
    /\ ~stop_event
    /\ stop_event' = TRUE
    /\ hist' = [hist EXCEPT !.stopAt = Phase(pc)]
    /\ UNCHANGED <<hostVars, cfg, opts, signal_installed, pc, ret, elapsed, warned, tick, exc, outcome, calls, front>>

\* routeguard-cli cleanup run by another process: remove_nft_rules()
ExternalCleanup ==
    /\ pc \notin {"created", "done", "killed"}
    /\ table # Absent
    /\ table' = remove_nft_rules(nftAvail, table).table
    /\ UNCHANGED <<nftAvail, files, faulty, runVars, hist, calls, front>>

\* Mutant: the last candidate path that exists is read.
read_state_last(f) ==
    IF \A i \in PathIdx : f[i] = "none" THEN "none"
    ELSE LET p == CHOOSE i \in PathIdx : f[i] # "none" /\ \A j \in PathIdx : j > i => f[j] = "none"
         IN IF f[p] = "partial" THEN "none" ELSE f[p]

\* read_state(): the content of the first candidate path that exists; a file
\* that does not parse gives None
read_state(f) ==
    IF \A i \in PathIdx : f[i] = "none" THEN "none"
    ELSE LET p == CHOOSE i \in PathIdx : f[i] # "none" /\ \A j \in PathIdx : j < i => f[j] = "none"
         IN IF f[p] = "partial" THEN "none" ELSE f[p]

\* routeguard-cli stop run by another process while the runner runs: SIGTERM to
\* the pid of the state record, then remove_nft_rules(). The pid of a record
\* left by an earlier run is a process that is gone (ProcessLookupError, logged).
\* SIGTERM sets the stop flag where _handler is installed and ends the process
\* at once where it is not (the runner is on a worker thread).
CmdStop ==
    /\ pc \notin {"created", "done", "killed"}
    /\ IF read_state(files) = "mine"
       THEN IF signal_installed
            THEN /\ stop_event' = TRUE
                 /\ hist' = IF stop_event THEN hist ELSE [hist EXCEPT !.stopAt = Phase(pc)]
                 /\ UNCHANGED pc
            ELSE /\ pc' = "killed"
                 /\ UNCHANGED <<stop_event, hist>>
       ELSE UNCHANGED <<stop_event, hist, pc>>
    /\ table' = remove_nft_rules(nftAvail, table).table
    /\ UNCHANGED <<nftAvail, files, faulty, cfg, opts, signal_installed, ret, elapsed, warned, tick, exc, outcome, calls, front>>

-----------------------------------------------------------------------------
(* Specifications of a run *)

RunnerInit ==
    /\ cfg \in {GeneratedConfig(m, ClampInterval(n), RunnerPolicy) : m \in Modes, n \in CallerIntervals}
    /\ opts \in [auto_up_vpn : BOOLEAN, auto_down_vpn_on_exit : BOOLEAN,
                  cleanup_nft_on_exit : BOOLEAN, main_thread : BOOLEAN]
    /\ stop_event = FALSE
    /\ signal_installed = FALSE
    /\ pc = "created"
    /\ ret = "startup"
    /\ elapsed = 0
    /\ warned = {}
    /\ tick = 0
    /\ exc = "none"
    /\ outcome = "running"
    /\ hist = NoHist
    /\ calls = << >>

Init ==
    /\ table \in InitialTables
    /\ nftAvail = TRUE
    /\ files \in InitialFiles
    /\ faulty = FALSE
    /\ front = NoFront
    /\ RunnerInit

InitFaults ==
    /\ table \in InitialTables
    /\ nftAvail = TRUE
    /\ files \in InitialFiles
    /\ faulty = TRUE
    /\ front = NoFront
    /\ RunnerInit

RunnerStep ==
    \/ Start \/ WgQuickUp \/ Dispatch \/ WaitForIface
    \/ ApplyRemove \/ ApplySubmit \/ ApplyVerify \/ OffRemove
    \/ WriteState \/ LoopCheck \/ HealCheck \/ Scan \/ TickCheck \/ TickSleep
    \/ TeardownNft \/ TeardownDown \/ TeardownState

Next == RunnerStep \/ RequestStop \/ Signal \/ ExternalCleanup \/ CmdStop

Spec == Init /\ [][Next]_vars

SpecFaults == InitFaults /\ [][Next]_vars

\* A state file left behind that this process can neither write nor unlink (it
\* is immutable, or its file system is read-only), with launches that may fail
PinnedFiles == { [NoFiles EXCEPT ![i] = "pinned"] : i \in PathIdx }

InitPinned ==
    /\ table \in InitialTables
    /\ nftAvail = TRUE
    /\ files \in PinnedFiles
    /\ faulty = TRUE
    /\ front = NoFront
    /\ RunnerInit

SpecPinned == InitPinned /\ [][Next]_vars

\* The runs on the main thread that find no state file left behind
InitLive ==
    /\ Init
    /\ files = NoFiles
    /\ opts.main_thread

\* run() is a thread that keeps being scheduled and its external commands return;
\* the stop requests and the other process need not happen.
SpecLive == InitLive /\ [][Next]_vars /\ WF_vars(RunnerStep)

\* Another runner instance on the same host, by what it does to the state
\* files: write_state with its own pid on the path _state_path() gives it
OtherRunnerWrites ==
    /\ pc \notin {"created", "done", "killed"}
    /\ \E creatable \in SUBSET PathIdx :
         /\ \A i \in PathIdx : files[i] # "none" => i \in creatable
         /\ files[StatePath(creatable)] # "pinned"
         /\ files' = [files EXCEPT ![StatePath(creatable)] = "other"]
    /\ UNCHANGED <<table, nftAvail, faulty, runVars, hist, calls, front>>

\* The finally clause of the other instance, reached from any mode and from a
\* failed startup alike: remove_nft_rules if it is told to, then remove_state()
OtherRunnerEnds ==
    /\ pc \notin {"created", "done", "killed"}
    /\ \E cleanup \in BOOLEAN :
         table' = IF cleanup THEN remove_nft_rules(nftAvail, table).table ELSE table
    /\ files' = remove_state(files)
    /\ UNCHANGED <<nftAvail, faulty, runVars, hist, calls, front>>

NextTwo == RunnerStep \/ RequestStop \/ OtherRunnerWrites \/ OtherRunnerEnds

SpecTwo == InitLive /\ [][NextTwo]_vars

\* The runs that nothing but routeguard-cli stop, run by another process any
\* number of times, signals or disturbs
NextStop == RunnerStep \/ CmdStop

SpecStop == Init /\ [][NextStop]_vars

-----------------------------------------------------------------------------
(* The front ends: main() of routeguard_cli.py and the start and stop buttons of
   routeguard_gui.py. The runner object exists from pc = "created" on; before
   that cfg and opts hold what the user selected. *)

Exit(code, why) == front' = [front EXCEPT !.at = "exited", !.code = {code}, !.why = why]

\* parse_args(): argparse ends the process through SystemExit, which is no
\* Exception and so passes the except clauses of main(): code 2 for a command
\* line it rejects, code 0 after --help
CliParse ==
    /\ front.ui = "cli" /\ front.at = "parse"
    /\ \E argv \in {"accepted", "rejected", "help"} :
         CASE argv = "accepted" -> front' = [front EXCEPT !.at = "cmd"]
           [] argv = "rejected" -> Exit(2, "usage")
           [] OTHER -> Exit(0, "help")
    /\ UNCHANGED <<hostVars, runVars, hist, calls>>

\* check_dependencies(): the commands of ('ip', 'nft') that are not on PATH
MissingDeps(ipThere) == (IF ipThere THEN {} ELSE {"ip"}) \cup (IF nftAvail THEN {} ELSE {"nft"})

\* Mutant: cmd_run without ensure_root_if_needed.
CmdRunUnchecked ==
    /\ front.ui = "cli" /\ front.at = "cmd" /\ front.cmd = "run"
    /\ \E ipThere \in BOOLEAN, built \in {"built", "ConfigError", "save-failed"} :
         IF MissingDeps(ipThere) # {} THEN Exit(1, "deps") /\ UNCHANGED pc
         ELSE IF built # "built" THEN Exit(1, IF built = "ConfigError" THEN "config" ELSE "unexpected") /\ UNCHANGED pc
         ELSE front' = [front EXCEPT !.at = "run"] /\ pc' = "created"
    /\ UNCHANGED <<hostVars, cfg, opts, stop_event, signal_installed, ret, elapsed, warned, tick, exc, outcome, hist, calls>>

\* cmd_run up to the construction of the runner; an error it raises is caught by
\* main(), which returns 1
CmdRun ==
    /\ front.ui = "cli" /\ front.at = "cmd" /\ front.cmd = "run"
    /\ \E ipThere \in BOOLEAN, built \in {"built", "ConfigError", "save-failed"} :
         IF ~front.root THEN Exit(1, "root") /\ UNCHANGED pc
         ELSE IF MissingDeps(ipThere) # {} THEN Exit(1, "deps") /\ UNCHANGED pc
         ELSE IF built # "built" THEN Exit(1, IF built = "ConfigError" THEN "config" ELSE "unexpected") /\ UNCHANGED pc
         ELSE front' = [front EXCEPT !.at = "run"] /\ pc' = "created"
    /\ UNCHANGED <<hostVars, cfg, opts, stop_event, signal_installed, ret, elapsed, warned, tick, exc, outcome, hist, calls>>

\* cmd_print: make_cfg, print, and save if asked to
CmdPrint ==
    /\ front.ui = "cli" /\ front.at = "cmd" /\ front.cmd = "print-config"
    /\ \E built \in {"built", "ConfigError", "save-failed"} :
         CASE built = "built" -> Exit(0, "ok")
           [] built = "ConfigError" -> Exit(1, "config")
           [] OTHER -> Exit(1, "unexpected")
    /\ UNCHANGED <<hostVars, runVars, hist, calls>>

\* cmd_status: status_summary() and the pid of the state record, if any
CmdStatus ==
    /\ front.ui = "cli" /\ front.at = "cmd" /\ front.cmd = "status"
    /\ Exit(0, "ok")
    /\ UNCHANGED <<hostVars, runVars, hist, calls>>

\* cmd_cleanup: the root check, then remove_nft_rules()
CmdCleanup ==
    /\ front.ui = "cli" /\ front.at = "cmd" /\ front.cmd = "cleanup"
    /\ IF ~front.root
       THEN Exit(1, "root") /\ UNCHANGED table
       ELSE LET rm == remove_nft_rules(nftAvail, table)
            IN /\ table' = rm.table
               /\ IF rm.err = "none" THEN Exit(0, "ok") ELSE Exit(1, "unexpected")
    /\ UNCHANGED <<nftAvail, files, faulty, runVars, hist, calls>>

\* cmd_stop with no runner alive: the pid of a record left behind is a process
\* that is gone, which is logged; then remove_nft_rules()
CliStop ==
    /\ front.ui = "cli" /\ front.at = "cmd" /\ front.cmd = "stop"
    /\ IF ~front.root
       THEN Exit(1, "root") /\ UNCHANGED table
       ELSE LET rm == remove_nft_rules(nftAvail, table)
            IN /\ table' = rm.table
               /\ IF rm.err = "none" THEN Exit(0, "ok") ELSE Exit(1, "unexpected")
    /\ UNCHANGED <<nftAvail, files, faulty, runVars, hist, calls>>

\* except KeyboardInterrupt: return 130
InterruptCode == 130

\* A signal that reaches the CLI process before run() has installed _handler:
\* SIGINT raises KeyboardInterrupt in main(); SIGTERM ends the process at once.
\* A runner that was built and not yet run never runs.
CliSignalEarly ==
    /\ front.ui = "cli"
    /\ front.at \in {"parse", "cmd"} \/ (front.at = "run" /\ pc = "created")
    /\ \E sig \in {"SIGINT", "SIGTERM"} :
         IF sig = "SIGINT" THEN Exit(InterruptCode, "interrupt")
         ELSE front' = [front EXCEPT !.at = "killed", !.why = "sigterm"]
    /\ pc' = IF pc = "created" THEN "killed" ELSE pc
    /\ UNCHANGED <<hostVars, cfg, opts, stop_event, signal_installed, ret, elapsed, warned, tick, exc, outcome, hist, calls>>

\* Mutant: main() returns 0 whatever run() did.
CliReturnZero ==
    /\ front.ui = "cli" /\ front.at = "run" /\ pc = "done"
    /\ Exit(0, "ok")
    /\ UNCHANGED <<hostVars, runVars, hist, calls>>

\* return runner.run(): 0 from run(); every error run() raises is a
\* RouteGuardError or another Exception, and main() returns 1 for both
CliReturn ==
    /\ front.ui = "cli" /\ front.at = "run" /\ pc = "done"
    /\ IF outcome = "returned 0" THEN Exit(0, "ok") ELSE Exit(1, "error")
    /\ UNCHANGED <<hostVars, runVars, hist, calls>>

\* start_guard: the dependency check and _cfg(), then the runner is built and
\* its worker thread started; there is no root check
StartGuard ==
    /\ front.ui = "gui" /\ front.at = "idle" /\ pc = "nolaunch"
    /\ \E ipThere \in BOOLEAN, built \in {"built", "ConfigError"} :
         IF MissingDeps(ipThere) # {}
         THEN front' = [front EXCEPT !.at = "refused", !.why = "deps"] /\ UNCHANGED pc
         ELSE IF built # "built"
         THEN front' = [front EXCEPT !.at = "refused", !.why = "config"] /\ UNCHANGED pc
         ELSE front' = [front EXCEPT !.at = "run"] /\ pc' = "created"
    /\ UNCHANGED <<hostVars, cfg, opts, stop_event, signal_installed, ret, elapsed, warned, tick, exc, outcome, hist, calls>>

\* stop_guard: if self.runner: self.runner.request_stop()
StopGuard ==
    /\ front.ui = "gui" /\ pc # "nolaunch"
    /\ RequestStop

\* _work: after run() the worker hands the end of the session to the log queue
WorkEnd ==
    /\ front.ui = "gui" /\ front.at = "run" /\ pc = "done"
    /\ front' = [front EXCEPT !.at = "ended", !.why = IF outcome = "returned 0" THEN "ok" ELSE "error"]
    /\ UNCHANGED <<hostVars, runVars, hist, calls>>

CliModes == {"monitor", "protect", "off"}
GuiModes == {"monitor", "protect"}
CliCommands == {"run", "print-config", "status", "cleanup", "stop"}

InitFront ==
    /\ table \in InitialTables
    /\ nftAvail \in BOOLEAN
    /\ files = NoFiles
    /\ faulty = FALSE
    /\ front \in {[ui |-> "cli", cmd |-> c, root |-> r, at |-> "parse", why |-> "none", code |-> {}] :
                      c \in CliCommands, r \in BOOLEAN}
                 \cup {[ui |-> "gui", cmd |-> "run", root |-> r, at |-> "idle", why |-> "none", code |-> {}] :
                      r \in BOOLEAN}
    /\ cfg \in {GeneratedConfig(m, 1, RunnerPolicy) : m \in IF front.ui = "cli" THEN CliModes ELSE GuiModes}
    /\ opts \in [auto_up_vpn : BOOLEAN, auto_down_vpn_on_exit : BOOLEAN,
                  cleanup_nft_on_exit : BOOLEAN, main_thread : {front.ui = "cli"}]
    /\ stop_event = FALSE
    /\ signal_installed = FALSE
    /\ pc = "nolaunch"
    /\ ret = "startup"
    /\ elapsed = 0
    /\ warned = {}
    /\ tick = 0
    /\ exc = "none"
    /\ outcome = "running"
    /\ hist = NoHist
    /\ calls = << >>

NextFront ==
    \/ CliParse \/ CmdRun \/ CmdPrint \/ CmdStatus \/ CmdCleanup \/ CliStop
    \/ CliSignalEarly \/ CliReturn
    \/ StartGuard \/ StopGuard \/ WorkEnd
    \/ Signal \/ RunnerStep

SpecFront == InitFront /\ [][NextFront]_vars

-----------------------------------------------------------------------------
(* The compiler called on its own, on one policy, any number of times *)

EndpointPool == {Ep(ip4a, 51820), Ep(ip6a, 51820), [ip |-> ip4a, port |-> 443, proto |-> "TCP"]}
EndpointLists == UNION {[1..n -> EndpointPool] : n \in 0..MaxEndpoints}
CompilePolicies ==
    {GeneratedConfig("protect", 1, Policy(i, l, d, e)) :
        i \in {wg0, wgq}, l \in BOOLEAN, d \in BOOLEAN, e \in EndpointLists}

\* script = build_nft_script(cfg)
Compile ==
    /\ Len(calls) < MaxCalls
    /\ calls' = Append(calls, [op |-> "compile", script |-> build_nft_script(cfg)])
    /\ UNCHANGED <<hostVars, runVars, hist, front>>

InitCompile ==
    /\ calls = << >>
    /\ table \in InitialTables
    /\ nftAvail = TRUE
    /\ files = NoFiles
    /\ faulty = FALSE
    /\ front = NoFront
    /\ cfg \in CompilePolicies
    /\ opts = [auto_up_vpn |-> FALSE, auto_down_vpn_on_exit |-> FALSE,
               cleanup_nft_on_exit |-> TRUE, main_thread |-> TRUE]
    /\ stop_event = FALSE
    /\ signal_installed = FALSE
    /\ pc = "created"
    /\ ret = "startup"
    /\ elapsed = 0
    /\ warned = {}
    /\ tick = 0
    /\ exc = "none"
    /\ outcome = "running"
    /\ hist = NoHist

NextCompile == Compile

(* The chain as nftables evaluates it: the rules in order, the first one that
   matches gives the verdict, and the chain policy decides when none matches *)

lan4 == <<"1", "0", ".", "1", ".", "2", ".", "3">>
pub4 == <<"8", ".", "8", ".", "8", ".", "8">>
ll6  == <<"f", "e", "8", "0", ":", ":", "1">>
mc6  == <<"f", "f", "0", "2", ":", ":", "1">>
ula6 == <<"f", "c", "0", "0", ":", ":", "1">>
pub6 == <<"2", "0", "0", "1", ":", ":", "2">>

\* The sample addresses that lie in a prefix named by the rules
CidrMembers(cidr) ==
    CASE cidr = "10.0.0.0/8" -> {lan4}
      [] cidr = "fe80::/10" -> {ll6}
      [] cidr = "ff00::/8" -> {mc6}
      [] cidr = "fc00::/7" -> {ula6}
      [] OTHER -> {}

Packets ==
    {[oif |-> o, fam |-> IF a \in {ip6a, ll6, mc6, ula6, pub6} THEN "ip6" ELSE "ip", daddr |-> a,
      proto |-> p, sport |-> sp, dport |-> dp] :
        o \in {lo, wg0, wgq, eth0}, a \in {ip4a, lan4, pub4, ip6a, ll6, mc6, ula6, pub6},
        p \in {"udp", "tcp"}, sp \in {68, 546, 40000}, dp \in {67, 547, 443, 51820}}

Matches(r, pkt) ==
    CASE r[1] = "oifname-accept" -> pkt.oif = r[2]
      [] r[1] = "oifname-neq-drop" -> pkt.oif # r[2]
      [] r[1] = "ip6-daddr-set-accept" ->
            pkt.fam = "ip6" /\ \E i \in 1..Len(r[2]) : pkt.daddr \in CidrMembers(r[2][i])
      [] r[1] = "ip-daddr-set-accept" ->
            pkt.fam = "ip" /\ \E i \in 1..Len(r[2]) : pkt.daddr \in CidrMembers(r[2][i])
      [] r[1] = "ip6-daddr-accept" -> pkt.fam = "ip6" /\ pkt.daddr \in CidrMembers(r[2])
      [] r[1] = "udp-accept" -> pkt.proto = "udp" /\ pkt.sport = r[2] /\ pkt.dport = r[3]
      [] r[1] = "endpoint-accept" ->
            pkt.fam = r[2] /\ pkt.daddr = r[3] /\ pkt.proto = r[4] /\ pkt.dport = r[5]
      [] OTHER -> FALSE

RECURSIVE ChainVerdict(_, _, _)
ChainVerdict(rules, policy, pkt) ==
    IF rules = << >> THEN policy
    ELSE IF Matches(Head(rules), pkt)
         THEN IF Head(rules)[1] = "oifname-neq-drop" THEN "drop" ELSE "accept"
         ELSE ChainVerdict(Tail(rules), policy, pkt)

Verdict(script, pkt) == ChainVerdict(script.rules, script.policy, pkt)

SpecCompile == InitCompile /\ [][NextCompile]_vars

-----------------------------------------------------------------------------
(* The detector called on its own, on one route list *)

RoutePool ==
    {Route(d, dev, oif, IF dev = eth0 THEN "192.168.1.1" ELSE "") :
        d \in {"0.0.0.0/1", "128.0.0.0/1", "::/1", "8000::/1", "default"},
        dev \in {NoName, wg0, eth0}, oif \in {NoName, eth0}}
RouteLists == UNION {[1..n -> RoutePool] : n \in 0..MaxRoutes}

\* out = suspicious_routes(routes, vpn_iface, ipv6)
ScanCall ==
    /\ Len(calls) = 1
    /\ calls' = Append(calls, [calls[1] EXCEPT
                    !.op = "scan",
                    !.out = suspicious_routes(calls[1].routes, cfg.vpn_iface, calls[1].ipv6)])
    /\ UNCHANGED <<hostVars, runVars, hist, front>>

InitScan ==
    /\ calls \in {<<[op |-> "routes", routes |-> rs, ipv6 |-> v6, out |-> << >>]>> :
                     rs \in RouteLists, v6 \in BOOLEAN}
    /\ table = Absent
    /\ nftAvail = TRUE
    /\ files = NoFiles
    /\ faulty = FALSE
    /\ front = NoFront
    /\ cfg \in {GeneratedConfig("monitor", 1, Policy(i, TRUE, TRUE, <<Ep(ip4a, 51820)>>)) : i \in {wg0, eth0}}
    /\ opts = [auto_up_vpn |-> FALSE, auto_down_vpn_on_exit |-> FALSE,
               cleanup_nft_on_exit |-> TRUE, main_thread |-> TRUE]
    /\ stop_event = FALSE
    /\ signal_installed = FALSE
    /\ pc = "created"
    /\ ret = "startup"
    /\ elapsed = 0
    /\ warned = {}
    /\ tick = 0
    /\ exc = "none"
    /\ outcome = "running"
    /\ hist = NoHist

NextScan == ScanCall

SpecScan == InitScan /\ [][NextScan]_vars

-----------------------------------------------------------------------------
(* Policy construction from the sections of a WireGuard file *)

Digits == {"0", "1", "2", "3", "4", "5", "6", "7", "8", "9"}
HexDigits == Digits \cup {"a", "b", "c", "d", "e", "f"}
DigitVal(c) ==
    CASE c = "0" -> 0 [] c = "1" -> 1 [] c = "2" -> 2 [] c = "3" -> 3 [] c = "4" -> 4
      [] c = "5" -> 5 [] c = "6" -> 6 [] c = "7" -> 7 [] c = "8" -> 8 [] c = "9" -> 9

\* int(port) of a string of decimal digits
RECURSIVE ParseInt(_)
ParseInt(s) == IF s = << >> THEN 0 ELSE 10 * ParseInt(SubSeq(s, 1, Len(s) - 1)) + DigitVal(s[Len(s)])

\* str.isdigit(): non-empty, decimal digits only
IsDigit(s) == s # << >> /\ \A i \in 1..Len(s) : s[i] \in Digits

CountOf(c, s) == Cardinality({i \in 1..Len(s) : s[i] = c})

\* str.strip() for the blank
RECURSIVE Strip(_)
Strip(s) ==
    IF s # << >> /\ s[1] = " " THEN Strip(Tail(s))
    ELSE IF s # << >> /\ s[Len(s)] = " " THEN Strip(SubSeq(s, 1, Len(s) - 1))
    ELSE s

Raised(what) == [ok |-> FALSE, error |-> what]

\* parse_endpoint: "[host]:port" by the pattern ^\[(.+)\]:(\d+)$, or "host:port"
\* when the text holds exactly one colon
parse_endpoint(text) ==
    LET endpoint == Strip(text)
        n == Len(endpoint)
        Closes == {k \in 3..(n - 2) : /\ endpoint[k] = "]" /\ endpoint[k + 1] = ":"
                                       /\ IsDigit(SubSeq(endpoint, k + 2, n))}
        colon == CHOOSE i \in 1..n : endpoint[i] = ":"
    IN IF endpoint # << >> /\ endpoint[1] = "["
       THEN IF Closes = {} THEN Raised("RouteGuardError")
            ELSE LET k == CHOOSE k \in Closes : TRUE
                 IN [ok |-> TRUE, host |-> SubSeq(endpoint, 2, k - 1),
                     port |-> ParseInt(SubSeq(endpoint, k + 2, n))]
       ELSE IF CountOf(":", endpoint) = 1
       THEN IF ~IsDigit(SubSeq(endpoint, colon + 1, n)) THEN Raised("RouteGuardError")
            ELSE [ok |-> TRUE, host |-> SubSeq(endpoint, 1, colon - 1),
                  port |-> ParseInt(SubSeq(endpoint, colon + 1, n))]
       ELSE Raised("RouteGuardError")

\* socket.inet_pton accepts the host as an address of one of the two families
\* (dotted quad of digits; hexadecimal groups with at least two colons)
IsAddressLiteral(host) ==
    \/ /\ \A i \in 1..Len(host) : host[i] \in Digits \cup {"."}
       /\ CountOf(".", host) = 3
       /\ host # << >> /\ host[1] # "." /\ host[Len(host)] # "."
    \/ /\ \A i \in 1..Len(host) : host[i] \in HexDigits \cup {":"}
       /\ CountOf(":", host) >= 2

\* the addresses of a lookup answer, each once, in the order of the answer
RECURSIVE UniqueInOrder(_)
UniqueInOrder(infos) ==
    IF infos = << >> THEN << >>
    ELSE LET before == UniqueInOrder(SubSeq(infos, 1, Len(infos) - 1))
             ip == infos[Len(infos)]
         IN IF \E i \in 1..Len(before) : before[i] = ip THEN before ELSE Append(before, ip)

\* What getaddrinfo can answer for a host name: a list of addresses, or gaierror
ip4b == <<"1", "9", "8", ".", "5", "1", ".", "1", "0", "0", ".", "7">>
LookupAnswers ==
    {[gaierror |-> TRUE, infos |-> << >>]} \cup
    {[gaierror |-> FALSE, infos |-> i] : i \in UNION {[1..n -> {ip4a, ip4b}] : n \in 0..2}}

\* resolve_host_ips, given the answer the lookup gives if it is made
resolve_host_ips(host, answer) ==
    IF IsAddressLiteral(host) THEN [ok |-> TRUE, ips |-> <<host>>]
    ELSE IF answer.gaierror THEN Raised("RouteGuardError")
    ELSE IF UniqueInOrder(answer.infos) = << >> THEN Raised("RouteGuardError")
    ELSE [ok |-> TRUE, ips |-> UniqueInOrder(answer.infos)]

\* infer_iface_name_from_wg_path on the file name
infer_iface_name_from_wg_path(name) ==
    IF Len(name) >= 5 /\ SubSeq(name, Len(name) - 4, Len(name)) = <<".", "c", "o", "n", "f">>
    THEN SubSeq(name, 1, Len(name) - 5) ELSE name

\* peer.get('Endpoint'): the value of the key, or nothing
PeerEndpoint(peer) == IF "Endpoint" \in DOMAIN peer THEN peer.Endpoint ELSE << >>

\* Mutant: every resolved address is appended.
KeyIsNewAlways(key, seen) == TRUE

\* key not in seen
KeyIsNew(key, seen) == key \notin seen

\* the inner loop of build_generated_config_from_wg over the addresses of one peer
RECURSIVE AddResolved(_, _, _, _)
AddResolved(ips, port, i, acc) ==
    IF i > Len(ips) THEN acc
    ELSE LET key == <<ips[i], port, "udp">>
         IN AddResolved(ips, port, i + 1,
                IF KeyIsNew(key, acc.seen)
                THEN [acc EXCEPT !.seen = @ \cup {key}, !.endpoints = Append(@, Ep(ips[i], port))]
                ELSE acc)

\* the loop of build_generated_config_from_wg over the peers
RECURSIVE CollectEndpoints(_, _, _, _)
CollectEndpoints(peers, answers, i, acc) ==
    IF i > Len(peers) \/ ~acc.ok THEN acc
    ELSE LET ep == PeerEndpoint(peers[i])
             parsed == parse_endpoint(ep)
             resolved == resolve_host_ips(parsed.host, answers[i])
         IN IF ep = << >> THEN CollectEndpoints(peers, answers, i + 1, acc)
            ELSE IF ~parsed.ok THEN [acc EXCEPT !.ok = FALSE]
            ELSE IF ~resolved.ok THEN [acc EXCEPT !.ok = FALSE]
            ELSE CollectEndpoints(peers, answers, i + 1, AddResolved(resolved.ips, parsed.port, 1, acc))

\* build_generated_config_from_wg on the parsed sections of the file
build_generated_config_from_wg(fileName, peers, answers, mode, vpn_iface, allow_lan, allow_dhcp, interval) ==
    LET iface_name == IF vpn_iface # NoName THEN vpn_iface ELSE infer_iface_name_from_wg_path(fileName)
        got == CollectEndpoints(peers, answers, 1, [ok |-> TRUE, seen |-> {}, endpoints |-> << >>])
    IN IF peers = << >> THEN Raised("RouteGuardError")
       ELSE IF ~got.ok THEN Raised("RouteGuardError")
       ELSE IF got.endpoints = << >> THEN Raised("RouteGuardError")
       ELSE [ok |-> TRUE,
             cfg |-> GeneratedConfig(mode, ClampInterval(interval),
                                     Policy(iface_name, allow_lan, allow_dhcp, got.endpoints))]

Port == <<"5", "1", "8", "2", "0">>
WgFileName == <<"w", "g", "0", ".", "c", "o", "n", "f">>
HostName == <<"v", "p", "n">>
EndpointTexts ==
    { ip4a \o <<":">> \o Port,
      ip4a \o <<":", "0">> \o Port,
      <<"[">> \o ip6a \o <<"]", ":">> \o Port,
      ip6a \o <<":">> \o Port,
      HostName \o <<":">> \o Port,
      ip4a \o <<":", "x">>,
      ip4a \o <<":", "7", "0", "0", "0", "0">>,
      << >> }
PeerPool == {[PublicKey |-> "k"]} \cup {[PublicKey |-> "k", Endpoint |-> t] : t \in EndpointTexts}
PeerLists == UNION {[1..n -> PeerPool] : n \in 0..MaxPeers}

\* cfg = build_generated_config_from_wg(path, ...), with the lookups answered
\* as the resolver of the moment answers them
Build ==
    /\ Len(calls) = 1
    /\ \E answers \in [1..Len(calls[1].peers) -> LookupAnswers] :
          /\ \A i \in 1..Len(calls[1].peers) :
                \/ /\ parse_endpoint(PeerEndpoint(calls[1].peers[i])).ok
                   /\ ~IsAddressLiteral(parse_endpoint(PeerEndpoint(calls[1].peers[i])).host)
                \/ answers[i] = [gaierror |-> TRUE, infos |-> << >>]
          /\ calls' = Append(calls, [calls[1] EXCEPT
                          !.op = "build",
                          !.answers = answers,
                          !.res = build_generated_config_from_wg(WgFileName, calls[1].peers, answers,
                                      "monitor", calls[1].iface, TRUE, TRUE, calls[1].interval)])
    /\ UNCHANGED <<hostVars, runVars, hist, front>>

InitBuild ==
    /\ calls \in {<<[op |-> "wgfile", peers |-> ps, iface |-> i, interval |-> n,
                      answers |-> << >>, res |-> Raised("none")]>> :
                     ps \in PeerLists, i \in {NoName, eth0}, n \in {0 - 3, 0, 5}}
    /\ table = Absent
    /\ nftAvail = TRUE
    /\ files = NoFiles
    /\ faulty = FALSE
    /\ front = NoFront
    /\ cfg = GeneratedConfig("monitor", 1, RunnerPolicy)
    /\ opts = [auto_up_vpn |-> FALSE, auto_down_vpn_on_exit |-> FALSE,
               cleanup_nft_on_exit |-> TRUE, main_thread |-> TRUE]
    /\ stop_event = FALSE
    /\ signal_installed = FALSE
    /\ pc = "created"
    /\ ret = "startup"
    /\ elapsed = 0
    /\ warned = {}
    /\ tick = 0
    /\ exc = "none"
    /\ outcome = "running"
    /\ hist = NoHist

NextBuild == Build

SpecBuild == InitBuild /\ [][NextBuild]_vars

-----------------------------------------------------------------------------
(* The parser of the WireGuard file, on the lines of the file as texts *)

\* str.lower() on the letters of the section names
LowerChar(c) ==
    CASE c = "P" -> "p" [] c = "E" -> "e" [] c = "R" -> "r" [] c = "I" -> "i" [] OTHER -> c
LowerText(t) == [i \in 1..Len(t) |-> LowerChar(t[i])]

\* not line or line.startswith('#') or line.startswith(';')
IsSkipped(line) == line = << >> \/ line[1] \in {"#", ";"}

\* line.startswith('[') and line.endswith(']')
IsHeader(line) == line # << >> /\ line[1] = "[" /\ line[Len(line)] = "]"

\* line[1:-1].strip().lower()
SectionName(line) == LowerText(Strip(SubSeq(line, 2, Len(line) - 1)))

interfaceName == <<"i", "n", "t", "e", "r", "f", "a", "c", "e">>
peerName == <<"p", "e", "e", "r">>

\* line.split('=', 1), both parts stripped
FirstEquals(line) == CHOOSE i \in 1..Len(line) : line[i] = "=" /\ \A j \in 1..(i - 1) : line[j] # "="
KeyOf(line) == Strip(SubSeq(line, 1, FirstEquals(line) - 1))
ValueOf(line) == Strip(SubSeq(line, FirstEquals(line) + 1, Len(line)))

\* Mutant: a key that is already in the map keeps its value.
SetKeyFirstWins(m, key, value) ==
    [k \in DOMAIN m \cup {key} |-> IF k \in DOMAIN m THEN m[k] ELSE value]

\* d[key] = value
SetKey(m, key, value) ==
    [k \in DOMAIN m \cup {key} |-> IF k = key THEN value ELSE m[k]]

NoKeys == << >>

\* one pass of the loop of parse_wireguard_config; current_peer is the last
\* map of peers while the section is a peer section
ParseLine(acc, raw_line) ==
    LET line == Strip(raw_line)
    IN IF IsSkipped(line) THEN acc
       ELSE IF IsHeader(line)
       THEN IF SectionName(line) = interfaceName THEN [acc EXCEPT !.current_section = "interface"]
            ELSE IF SectionName(line) = peerName
            THEN [acc EXCEPT !.current_section = "peer", !.peers = Append(@, NoKeys)]
            ELSE [acc EXCEPT !.current_section = "none"]
       ELSE IF CountOf("=", line) = 0 THEN acc
       ELSE IF acc.current_section = "interface"
       THEN [acc EXCEPT !.interface = SetKey(@, KeyOf(line), ValueOf(line))]
       ELSE IF acc.current_section = "peer"
       THEN [acc EXCEPT !.peers[Len(acc.peers)] = SetKey(@, KeyOf(line), ValueOf(line))]
       ELSE acc

RECURSIVE ParseLines(_, _)
ParseLines(lines, acc) ==
    IF lines = << >> THEN acc ELSE ParseLines(Tail(lines), ParseLine(acc, Head(lines)))

\* parse_wireguard_config(path) of a file that is there or not, with these lines
parse_wireguard_config(exists, lines) ==
    LET got == ParseLines(lines, [interface |-> NoKeys, peers |-> << >>, current_section |-> "none"])
    IN IF ~exists THEN Raised("RouteGuardError")
       ELSE IF got.peers = << >> THEN Raised("RouteGuardError")
       ELSE [ok |-> TRUE, interface |-> got.interface, peers |-> got.peers]

LinePool ==
    { <<"[", "I", "n", "t", "e", "r", "f", "a", "c", "e", "]">>,
      <<"[", "P", "e", "e", "r", "]">>,
      <<" ", "[", " ", "P", "E", "E", "R", " ", "]">>,
      <<"[", "x", "]">>,
      <<"a", "=", "1">>,
      <<" ", "a", " ", "=", " ", "2", " ">>,
      <<"b", "=", "1", "=", "2">>,
      <<"#", "[", "P", "e", "e", "r", "]">>,
      <<"a">> }
FileTexts == UNION {[1..n -> LinePool] : n \in 0..MaxLines}

ParseCall ==
    /\ Len(calls) = 1
    /\ calls' = Append(calls, [calls[1] EXCEPT !.op = "parse",
                                  !.res = parse_wireguard_config(calls[1].exists, calls[1].lines)])
    /\ UNCHANGED <<hostVars, runVars, hist, front>>

InitParse ==
    /\ calls \in {<<[op |-> "file", exists |-> e, lines |-> ls, res |-> Raised("none")]>> :
                     e \in BOOLEAN, ls \in FileTexts}
    /\ (~calls[1].exists => calls[1].lines = << >>)
    /\ table = Absent
    /\ nftAvail = TRUE
    /\ files = NoFiles
    /\ faulty = FALSE
    /\ front = NoFront
    /\ cfg = GeneratedConfig("monitor", 1, RunnerPolicy)
    /\ opts = [auto_up_vpn |-> FALSE, auto_down_vpn_on_exit |-> FALSE,
               cleanup_nft_on_exit |-> TRUE, main_thread |-> TRUE]
    /\ stop_event = FALSE
    /\ signal_installed = FALSE
    /\ pc = "created"
    /\ ret = "startup"
    /\ elapsed = 0
    /\ warned = {}
    /\ tick = 0
    /\ exc = "none"
    /\ outcome = "running"
    /\ hist = NoHist

NextParse == ParseCall

SpecParse == InitParse /\ [][NextParse]_vars

-----------------------------------------------------------------------------
(* The controller called on its own: any sequence of apply, remove and exists *)

HarnessPolicies == {RunnerPolicy, EarlierPolicy}

Call(op, accepted, err) ==
    [op |-> op, accepted |-> accepted, err |-> err,
     exists |-> routeguard_table_exists(nftAvail, table')]

FwApply ==
    /\ Len(calls) < MaxCalls
    /\ \E pol \in HarnessPolicies, accepted \in BOOLEAN :
         LET r == apply_nft_rules(nftAvail, table, GeneratedConfig("protect", 1, pol), accepted)
         IN /\ table' = r.table
            /\ calls' = Append(calls, Call("apply", accepted, r.err))
    /\ UNCHANGED <<nftAvail, files, faulty, runVars, hist, front>>

FwRemove ==
    /\ Len(calls) < MaxCalls
    /\ LET r == remove_nft_rules(nftAvail, table)
       IN /\ table' = r.table
          /\ calls' = Append(calls, Call("remove", FALSE, r.err))
    /\ UNCHANGED <<nftAvail, files, faulty, runVars, hist, front>>

FwExists ==
    /\ Len(calls) < MaxCalls
    /\ table' = table
    /\ calls' = Append(calls, Call("exists", FALSE, "none"))
    /\ UNCHANGED <<nftAvail, files, faulty, runVars, hist, front>>

InitFw ==
    /\ table \in InitialTables
    /\ nftAvail \in BOOLEAN
    /\ files = NoFiles
    /\ faulty = FALSE
    /\ cfg = GeneratedConfig("protect", 1, RunnerPolicy)
    /\ opts = [auto_up_vpn |-> FALSE, auto_down_vpn_on_exit |-> FALSE,
               cleanup_nft_on_exit |-> TRUE, main_thread |-> TRUE]
    /\ stop_event = FALSE
    /\ signal_installed = FALSE
    /\ pc = "created"
    /\ ret = "startup"
    /\ elapsed = 0
    /\ warned = {}
    /\ tick = 0
    /\ exc = "none"
    /\ outcome = "running"
    /\ hist = NoHist
    /\ calls = << >>
    /\ front = NoFront

NextFw == FwApply \/ FwRemove \/ FwExists

SpecFw == InitFw /\ [][NextFw]_vars

-----------------------------------------------------------------------------
(* apply_nft_rules step by step, called over and over by a caller that is
   privileged or not, on a host with or without the nft binary, while another
   process may run routeguard-cli cleanup. The last record of calls holds the
   table the call found. *)

\* the caller calls apply_nft_rules(cfg) once more after the call ended
ApplyAgain ==
    /\ pc \in {"td_nft", "write_state"}
    /\ Len(calls) < MaxCalls
    /\ pc' = "apply_rm"
    /\ exc' = "none"
    /\ hist' = [hist EXCEPT !.failedIn = "none"]
    /\ calls' = Append(calls, [op |-> "apply", table |-> table])
    /\ UNCHANGED <<hostVars, cfg, opts, stop_event, signal_installed, ret, elapsed, warned, tick, outcome, front>>

InitApply ==
    /\ table \in InitialTables
    /\ nftAvail \in BOOLEAN
    /\ files = NoFiles
    /\ faulty = FALSE
    /\ front \in {[NoFront EXCEPT !.root = r] : r \in BOOLEAN}
    /\ cfg \in {GeneratedConfig("protect", 1, pol) : pol \in HarnessPolicies}
    /\ opts = [auto_up_vpn |-> FALSE, auto_down_vpn_on_exit |-> FALSE,
               cleanup_nft_on_exit |-> TRUE, main_thread |-> TRUE]
    /\ stop_event = FALSE
    /\ signal_installed = FALSE
    /\ pc = "apply_rm"
    /\ ret = "startup"
    /\ elapsed = 0
    /\ warned = {}
    /\ tick = 0
    /\ exc = "none"
    /\ outcome = "running"
    /\ hist = NoHist
    /\ calls = <<[op |-> "apply", table |-> table]>>

NextApply == ApplyRemove \/ ApplySubmit \/ ApplyVerify \/ ExternalCleanup \/ ApplyAgain

SpecApply == InitApply /\ [][NextApply]_vars

-----------------------------------------------------------------------------
(* The GUI host and its worker thread. calls is log_q; hist.sent is every
   message put on it, hist.taken every message _pump_logs got from it, and
   hist.shown what _pump_logs wrote to the log widget. A message carries the
   run that put it (0: the host thread). The run of the worker is taken as a
   source of log lines that ends by returning or raising. The lines the host
   writes to the widget itself (start and stop requested) are left out. *)

STOPPED == "__RG_UI__STOPPED__"
Msg(text, by) == [text |-> text, by |-> by]
Shown(text, by) == [text |-> text, by |-> by]

\* self.log_q.put(msg)
Put(m) ==
    /\ calls' = Append(calls, m)
    /\ hist' = [hist EXCEPT !.sent = Append(@, m)]

\* start_guard once the checks passed: no worker is alive, the runner is built
\* with logger=self._enqueue_log, and the worker is started
GuiStartWorker ==
    /\ front.at = "idle" /\ front.run < MaxRuns
    /\ front' = [front EXCEPT !.at = "run", !.run = @ + 1, !.lines = 0]
    /\ UNCHANGED <<hostVars, runVars, calls, hist>>

\* the runner logs a line: self.logger(...) is _enqueue_log
WorkerLog ==
    /\ front.at = "run" /\ front.lines < MaxLogLines
    /\ Put(Msg("log", front.run))
    /\ front' = [front EXCEPT !.lines = @ + 1]
    /\ UNCHANGED <<hostVars, runVars>>

\* Mutant: the notice is put before the last line of the run.
WorkerReportNoticeFirst ==
    /\ front.at = "run"
    /\ \E end \in {"returned", "raised"} :
         /\ calls' = calls \o <<Msg(STOPPED, front.run),
                                 Msg(IF end = "returned" THEN "stopped with code" ELSE "ERROR", front.run)>>
         /\ hist' = [hist EXCEPT !.sent = @ \o <<Msg(STOPPED, front.run),
                                 Msg(IF end = "returned" THEN "stopped with code" ELSE "ERROR", front.run)>>]
    /\ front' = [front EXCEPT !.at = "idle"]
    /\ UNCHANGED <<hostVars, runVars>>

\* _work: run() returned and its code is reported, or it raised and the except
\* clause reports the error
WorkerReport ==
    /\ front.at = "run"
    /\ \E end \in {"returned", "raised"} :
         Put(Msg(IF end = "returned" THEN "stopped with code" ELSE "ERROR", front.run))
    /\ front' = [front EXCEPT !.at = "finally"]
    /\ UNCHANGED <<hostVars, runVars>>

\* _work, finally clause: the termination notice; the thread ends
WorkerNotice ==
    /\ front.at = "finally"
    /\ Put(Msg(STOPPED, front.run))
    /\ front' = [front EXCEPT !.at = "idle"]
    /\ UNCHANGED <<hostVars, runVars>>

\* remove_nft on the host thread: remove_nft_rules(logger=self._enqueue_log)
GuiRemoveNft ==
    /\ front.hostLines < MaxHostLines
    /\ Put(Msg("nft removed", 0))
    /\ front' = [front EXCEPT !.hostLines = @ + 1]
    /\ table' = remove_nft_rules(nftAvail, table).table
    /\ UNCHANGED <<nftAvail, files, faulty, runVars>>

\* _pump_logs, one pass of its loop: get_nowait, then the notice ends the
\* session in the status line and every other message is logged
PumpLogs ==
    /\ calls # << >>
    /\ LET msg == Head(calls)
       IN hist' = [hist EXCEPT
                     !.taken = Append(@, msg),
                     !.shown = Append(@, Shown(IF msg.text = STOPPED THEN "session ended" ELSE msg.text,
                                               msg.by))]
    /\ calls' = Tail(calls)
    /\ UNCHANGED <<hostVars, runVars, front>>

InitGui ==
    /\ calls = << >>
    /\ hist = [sent |-> << >>, taken |-> << >>, shown |-> << >>]
    /\ front = [ui |-> "gui", cmd |-> "run", root |-> TRUE, at |-> "idle", why |-> "none", code |-> {},
                run |-> 0, lines |-> 0, hostLines |-> 0]
    /\ table = {build_nft_script(GeneratedConfig("protect", 1, EarlierPolicy))}
    /\ nftAvail = TRUE
    /\ files = NoFiles
    /\ faulty = FALSE
    /\ cfg = GeneratedConfig("monitor", 1, RunnerPolicy)
    /\ opts = [auto_up_vpn |-> FALSE, auto_down_vpn_on_exit |-> FALSE,
               cleanup_nft_on_exit |-> TRUE, main_thread |-> FALSE]
    /\ stop_event = FALSE
    /\ signal_installed = FALSE
    /\ pc = "created"
    /\ ret = "startup"
    /\ elapsed = 0
    /\ warned = {}
    /\ tick = 0
    /\ exc = "none"
    /\ outcome = "running"

NextGui == GuiStartWorker \/ WorkerLog \/ WorkerReport \/ WorkerNotice \/ GuiRemoveNft \/ PumpLogs

SpecGui == InitGui /\ [][NextGui]_vars

-----------------------------------------------------------------------------
(* The state store called on its own: any sequence of write, read and remove,
   on a host where each candidate path is in one of four conditions *)

\* "nodir": the parent directory is not there and cannot be made;
\* "unwritable": the directory is there, the file cannot be opened for writing;
\* "full": the file is opened and the write stops half way;
\* "writable": the write goes through
PathConditions == {"nodir", "unwritable", "full", "writable"}

\* write_state(cfg) on files f where the candidates are in the conditions env:
\* the record goes to _state_path(), and only there
write_state(f, env) ==
    LET p == StatePath({i \in PathIdx : env[i] # "nodir"})
    IN CASE env[p] = "writable" -> [files |-> [f EXCEPT ![p] = "mine"], path |-> p, err |-> "none"]
         [] env[p] = "full" -> [files |-> [f EXCEPT ![p] = "partial"], path |-> 0, err |-> "OSError"]
         [] OTHER -> [files |-> f, path |-> 0, err |-> "OSError"]

StoreCall(op, env, path, got, err) == [op |-> op, env |-> env, path |-> path, got |-> got, err |-> err]

StoreWrite ==
    /\ Len(calls) <= MaxCalls
    /\ LET w == write_state(files, calls[1].env)
       IN /\ files' = w.files
          /\ calls' = Append(calls, StoreCall("write", calls[1].env, w.path, "none", w.err))
    /\ UNCHANGED <<table, nftAvail, faulty, runVars, hist, front>>

StoreRead ==
    /\ Len(calls) <= MaxCalls
    /\ calls' = Append(calls, StoreCall("read", calls[1].env, 0, read_state(files), "none"))
    /\ UNCHANGED <<hostVars, runVars, hist, front>>

StoreRemove ==
    /\ Len(calls) <= MaxCalls
    /\ files' = remove_state(files)
    /\ calls' = Append(calls, StoreCall("remove", calls[1].env, 0, "none", "none"))
    /\ UNCHANGED <<table, nftAvail, faulty, runVars, hist, front>>

InitStore ==
    /\ files \in InitialFiles \cup PinnedFiles \cup {[NoFiles EXCEPT ![i] = "partial"] : i \in PathIdx}
    /\ calls \in {<<StoreCall("host", env, 0, "none", "none")>> : env \in [PathIdx -> PathConditions]}
    \* a file that is there has its directory; one that cannot be unlinked cannot be written
    /\ \A i \in PathIdx : /\ files[i] # "none" => calls[1].env[i] # "nodir"
                          /\ files[i] = "pinned" => calls[1].env[i] = "unwritable"
    /\ table = Absent
    /\ nftAvail = TRUE
    /\ faulty = FALSE
    /\ front = NoFront
    /\ cfg = GeneratedConfig("monitor", 1, RunnerPolicy)
    /\ opts = [auto_up_vpn |-> FALSE, auto_down_vpn_on_exit |-> FALSE,
               cleanup_nft_on_exit |-> TRUE, main_thread |-> TRUE]
    /\ stop_event = FALSE
    /\ signal_installed = FALSE
    /\ pc = "created"
    /\ ret = "startup"
    /\ elapsed = 0
    /\ warned = {}
    /\ tick = 0
    /\ exc = "none"
    /\ outcome = "running"
    /\ hist = NoHist

NextStore == StoreWrite \/ StoreRead \/ StoreRemove

SpecStore == InitStore /\ [][NextStore]_vars

-----------------------------------------------------------------------------
(* Properties *)

Done == pc = "done"

\* C1: when run() has returned or raised, on whatever path, no state file is
\* left at any candidate path.
C1_StateAbsentAtExit ==
    Done => \A i \in PathIdx : files[i] = "none"

\* a run that stored its state, then failed in a self-heal, with a stale file found at start
C1_Witness ==
    /\ Done /\ hist.writes = 1 /\ outcome = "ApplyError" /\ hist.failedIn = "apply:heal"

\* The teardown steps this run has to make, in order
TeardownPlan ==
    (IF CleanupWanted THEN <<"nft">> ELSE << >>)
    \o (IF opts.auto_down_vpn_on_exit THEN <<"down">> ELSE << >>)
    \o <<"state">>

IsPrefix(a, b) == Len(a) <= Len(b) /\ SubSeq(b, 1, Len(a)) = a

\* C2: teardown runs remove-table (if cleanup and protect), tunnel-down (if
\* configured), remove-state, in this order; a step that raises does not stop
\* the later ones.
C2_TeardownOrder ==
    /\ IsPrefix(hist.td, TeardownPlan)
    /\ Done => hist.td = TeardownPlan

\* both earlier steps raised and all three steps ran
C2_Witness ==
    /\ Done /\ hist.tdRaised = {"nft", "down"} /\ hist.td = <<"nft", "down", "state">>

TunnelUpFailed == hist.failedIn = "wg_up"

\* C3, as stated: a run in mode off never applies, never writes its state,
\* never enters the loop, returns 0 and leaves the table absent.
C3_OffAlwaysSucceeds ==
    cfg.mode = "off" =>
        /\ hist.applies = 0 /\ hist.writes = 0 /\ ~hist.iterations
        /\ Done => (outcome = "returned 0" /\ table = Absent)

\* C3, amended: a run in mode off never applies, never writes its state and never
\* enters the loop; it returns 0 with the table absent, unless the tunnel
\* bring-up it was asked for failed: then it raises that error and has issued
\* no delete.
C3_OffMode ==
    cfg.mode = "off" =>
        /\ hist.applies = 0 /\ hist.writes = 0 /\ ~hist.iterations
        /\ Done => \/ outcome = "returned 0" /\ table = Absent /\ ~TunnelUpFailed
                   \/ outcome = "TunnelError" /\ TunnelUpFailed /\ ~hist.deletes

\* mode off, tunnel brought up, a table was loaded before the run, and the run is over
C3_Witness ==
    /\ cfg.mode = "off" /\ Done /\ opts.auto_up_vpn /\ hist.table0 # Absent
    /\ outcome = "returned 0" /\ table = Absent

\* C4: when the tunnel bring-up fails, no step of run() changes the managed
\* table: it is left as it was before the run.
C4_TunnelErrorTouchesNothing ==
    [][(TunnelUpFailed /\ pc' # pc) => table' = table]_vars

ApplyCalls == {i \in 1..Len(calls) : calls[i].op = "apply" /\ calls[i].accepted}

\* C5: with the nft binary there and the script accepted, an apply call raises
\* nothing and exists() is true after it, from any table state and so also for
\* the second of two apply calls in a row.
C5_ApplyIdempotent ==
    nftAvail =>
        \A i \in ApplyCalls : calls[i].err = "none" /\ calls[i].exists

\* two accepted applies in a row
C5_Witness ==
    /\ nftAvail /\ Len(calls) >= 2 /\ {1, 2} \subseteq ApplyCalls
    /\ calls[1].exists /\ calls[2].exists

\* C6: remove() raises nothing and exists() is false right after it, whatever
\* the table state and whether or not nft is there.
C6_RemoveThenAbsent ==
    \A i \in 1..Len(calls) :
        calls[i].op = "remove" => (calls[i].err = "none" /\ ~calls[i].exists)

\* apply, remove, remove again
C6_Witness ==
    /\ Len(calls) = 3 /\ calls[1].op = "apply" /\ calls[1].exists
    /\ calls[2].op = "remove" /\ calls[3].op = "remove"

HealFailed == hist.failedIn = "apply:heal"

\* C7, as stated: a table found missing by the loop never ends the run.
C7_MissingTableNeverFatal ==
    ~HealFailed

\* C7, amended: an iteration of the protect loop that finds the table absent
\* re-applies the ruleset; a re-apply that succeeds leaves the table present and
\* the run goes on to its scan; a re-apply that fails ends the run with that
\* error. So a table found missing leads to the scan or to that error.
C7_SelfHeal ==
    /\ [][(pc = "heal_check" /\ table = Absent /\ pc' # pc)
             => (pc' = "apply_rm" /\ ret' = "heal")]_vars
    /\ [][(pc = "apply_verify" /\ ret = "heal" /\ pc' # pc)
             => \/ pc' = "scan" /\ table' # Absent
                \/ pc' = "td_nft" /\ exc' = "ApplyError"]_vars
    /\ (pc = "heal_check" /\ table = Absent) ~> (pc = "scan" \/ HealFailed)

\* a self-heal that succeeded: the second apply of the run, back in the loop
C7_Witness ==
    /\ pc = "scan" /\ ret = "heal" /\ hist.applies = 2 /\ table # Absent

NoRepeat(q) == \A i, j \in 1..Len(q) : q[i] = q[j] => i = j

\* C8: each cycle logs one alert line for every alert of this scan that the
\* scan before did not have, and no other line.
C8_AlertsAreNewOnes ==
    [][(pc = "scan" /\ pc' = "tick_check")
         => /\ NoRepeat(hist'.alerted)
            /\ SeqToSet(hist'.alerted) = hist'.curScan \ hist.curScan]_vars

\* a cycle with two alerts of which one was there the cycle before
C8_Witness ==
    /\ pc = "tick_check" /\ Cardinality(hist.curScan) = 2 /\ Len(hist.alerted) = 1

StoppedInLoop == hist.stopAt \in {"Monitoring", "Sleeping"}

\* C9, as stated: a run stopped while Monitoring returns 0.
C9_StopReturnsZero ==
    (StoppedInLoop /\ Done) => outcome = "returned 0"

\* C9, amended: a run stopped while Monitoring leaves the loop, runs teardown and
\* ends; it returns 0 unless the self-heal of the iteration it was in fails, and
\* then it raises that error.
C9_StopEndsRun ==
    /\ (stop_event /\ StoppedInLoop) ~> Done
    /\ []((StoppedInLoop /\ Done) =>
             \/ outcome = "returned 0" /\ hist.td = TeardownPlan
             \/ outcome = "ApplyError" /\ HealFailed /\ hist.td = TeardownPlan)

\* stopped during the sleep, and returned 0
C9_Witness ==
    /\ Done /\ hist.stopAt = "Sleeping" /\ outcome = "returned 0"

\* C10: after a stop set during the sleep phase at most one more tick is slept
\* and no scan is made, whatever the poll interval.
C10_StopLatency ==
    hist.stopAt = "Sleeping" => (hist.ticksAfterStop <= 1 /\ hist.scansAfterStop = 0)

\* the longest poll interval, stopped in its sleep, one tick slept after that
C10_Witness ==
    /\ hist.stopAt = "Sleeping" /\ hist.ticksAfterStop = 1 /\ pc = "td_nft"
    /\ cfg.poll_interval_sec = MaxPoll

\* C11: a cleanup or stop command run beside a protect-mode runner makes no
\* step of the runner fail (the table it has just loaded is found by its
\* verification), and when the runner is over, having been started with cleanup,
\* the managed table and the state record are both absent.
C11_ConcurrentCommandsConverge ==
    /\ [][(pc = "apply_verify" /\ pc' # pc) => exc' = "none"]_vars
    /\ []((pc \in {"done", "killed"} /\ CleanupWanted)
            => (table = Absent /\ \A i \in PathIdx : files[i] = "none"))

StartRefusedFor == {"root", "deps", "config"}
NothingIssued == pc = "nolaunch" /\ hist.applies = 0 /\ ~hist.deletes

\* C12, as stated: when the process is not root, a dependency is missing or the
\* configuration cannot be built, the run command and the start button build no
\* runner and no apply or delete is ever issued.
C12_ErrorsAbortBeforeRunner ==
    (front.ui \in {"cli", "gui"} /\ front.cmd = "run"
       /\ (~front.root \/ ~nftAvail \/ front.why \in StartRefusedFor))
        => NothingIssued

\* C12, amended: the run command builds no runner and issues nothing when the
\* process is not root, a dependency is missing or the configuration cannot be
\* built; the start button does so for a missing dependency and a configuration
\* error, and makes no root check: started without privilege it builds the
\* runner, whose nft commands are refused, so that the table is never changed.
C12_ErrorsAbort ==
    /\ []((front.cmd = "run"
             /\ \/ front.ui = "cli" /\ ~front.root
                \/ front.ui \in {"cli", "gui"} /\ (~nftAvail \/ front.why \in StartRefusedFor))
            => NothingIssued)
    /\ [][~front.root => table' = table]_vars

\* the run command refused for want of privilege, with a table loaded before it
C12_Witness ==
    /\ front.ui = "cli" /\ front.cmd = "run" /\ front.why = "root" /\ front.at = "exited"
    /\ table # Absent /\ NothingIssued

\* C13: a failure of the tunnel-down step or of the state removal is swallowed:
\* these two steps leave what run() is about to return or raise as it was when
\* they began.
C13_TeardownFailuresSwallowed ==
    /\ [][(pc = "td_down" /\ pc' \notin {pc, "killed"})
             => (pc' = "td_state" /\ exc' = exc)]_vars
    /\ [][(pc = "td_state" /\ pc' \notin {pc, "killed"})
             => (pc' = "done" /\ outcome' = IF exc = "none" THEN "returned 0" ELSE exc)]_vars

\* the tunnel-down step raised, a state file could not be unlinked, and run()
\* returned 0
C13_Witness ==
    /\ Done /\ hist.tdRaised = {"down"} /\ hist.writes = 1
    /\ \E i \in PathIdx : files[i] = "pinned"
    /\ outcome = "returned 0"

Compiled == {calls[i].script : i \in 1..Len(calls)}
OnOff(flag) == IF flag THEN 2 ELSE 0

\* C14: the compiled rule list is: loopback accept, tunnel-interface accept, IPv6
\* link-local/multicast accept, the two DHCP accepts iff allow_dhcp, the two LAN
\* accepts iff allow_lan, one accept per endpoint in the order of the endpoint
\* list, and the drop of non-tunnel egress last.
C14_RuleOrder ==
    \A sc \in Compiled :
        LET r == sc.rules
            d == OnOff(cfg.allow_dhcp)
            l == OnOff(cfg.allow_lan)
            n == Len(cfg.vpn_endpoints)
            iface == StripQuotes(cfg.vpn_iface)
        IN /\ Len(r) = 3 + d + l + n + 1
           /\ r[1] = <<"oifname-accept", lo>>
           /\ r[2] = <<"oifname-accept", iface>>
           /\ r[3] = <<"ip6-daddr-set-accept", LINK_LOCAL_V6>>
           /\ cfg.allow_dhcp => (r[4] = <<"udp-accept", 68, 67>> /\ r[5] = <<"udp-accept", 546, 547>>)
           /\ cfg.allow_lan => /\ r[3 + d + 1] = <<"ip-daddr-set-accept", PRIVATE_V4_CIDRS>>
                               /\ r[3 + d + 2] = <<"ip6-daddr-accept", PRIVATE_V6_CIDR>>
           /\ \A i \in 1..n :
                 LET e == cfg.vpn_endpoints[i]
                     q == r[3 + d + l + i]
                 IN q[1] = "endpoint-accept" /\ q[3] = e.ip /\ q[4] = Lower(e.proto) /\ q[5] = e.port
           /\ r[Len(r)] = <<"oifname-neq-drop", iface>>
           /\ \A i \in 1..(Len(r) - 1) : r[i][1] # "oifname-neq-drop"

\* both flags set and two different endpoints, compiled
C14_Witness ==
    /\ Compiled # {} /\ cfg.allow_dhcp /\ cfg.allow_lan
    /\ Len(cfg.vpn_endpoints) = 2 /\ cfg.vpn_endpoints[1] # cfg.vpn_endpoints[2]

\* The traffic the policy lets out on any device
Exempt(c, pkt) ==
    \/ pkt.daddr \in {ll6, mc6}
    \/ c.allow_dhcp /\ pkt.proto = "udp" /\ <<pkt.sport, pkt.dport>> \in {<<68, 67>>, <<546, 547>>}
    \/ c.allow_lan /\ pkt.daddr \in {lan4, ula6}
    \/ \E i \in 1..Len(c.vpn_endpoints) :
          LET e == c.vpn_endpoints[i]
          IN pkt.daddr = e.ip /\ pkt.proto = Lower(e.proto) /\ pkt.dport = e.port

\* C15, as stated: a packet is accepted exactly when it leaves by loopback or
\* by the tunnel interface of the policy, or is exempt traffic; every other
\* packet is dropped.
C15_DenyByDefault ==
    \A sc \in Compiled : \A pkt \in Packets :
        (Verdict(sc, pkt) = "accept") <=> (pkt.oif \in {lo, cfg.vpn_iface} \/ Exempt(cfg, pkt))

\* C15, amended: a packet is accepted exactly when it leaves by loopback or by
\* the device whose name is the policy's interface name without its quote
\* characters, or is exempt traffic; every other packet is dropped.
C15_DenyByDefaultSanitized ==
    \A sc \in Compiled : \A pkt \in Packets :
        (Verdict(sc, pkt) = "accept")
            <=> (pkt.oif \in {lo, StripQuotes(cfg.vpn_iface)} \/ Exempt(cfg, pkt))

\* a compiled policy with an IPv4 and an IPv6 endpoint and no LAN, that drops a
\* LAN packet on eth0 and accepts the packets to both endpoints on eth0
C15_Witness ==
    /\ ~cfg.allow_lan /\ Len(cfg.vpn_endpoints) = 2
    /\ \E sc \in Compiled :
         /\ \E pkt \in Packets : pkt.oif = eth0 /\ pkt.daddr = lan4 /\ Verdict(sc, pkt) = "drop"
         /\ \E pkt \in Packets : pkt.oif = eth0 /\ pkt.daddr = ip4a /\ Verdict(sc, pkt) = "accept"
         /\ \E pkt \in Packets : pkt.oif = eth0 /\ pkt.daddr = ip6a /\ Verdict(sc, pkt) = "accept"

Egress(r) == IF r.dev # NoName THEN r.dev ELSE r.oif

\* C17: the scan flags a route exactly when its destination is one of the two
\* split-default prefixes of the family scanned, its egress device is set, and
\* that device is not the tunnel interface; so it flags nothing in an empty list.
C17_ScanFlagsExactly ==
    \A k \in 1..Len(calls) :
        calls[k].op = "scan" =>
            LET rs == calls[k].routes
                out == calls[k].out
                targets == IF calls[k].ipv6 THEN {"::/1", "8000::/1"} ELSE {"0.0.0.0/1", "128.0.0.0/1"}
                Flagged(r) == r.dst \in targets /\ Egress(r) # NoName /\ Egress(r) # cfg.vpn_iface
            IN /\ Len(out) = Cardinality({i \in 1..Len(rs) : Flagged(rs[i])})
               /\ \A i \in 1..Len(rs) :
                     Flagged(rs[i]) <=> \E j \in 1..Len(out) :
                                          out[j][1] = rs[i].dst /\ out[j][2] = Egress(rs[i])

\* {dst 0.0.0.0/1, dev eth0} and {dst 0.0.0.0/1, dev wg0} scanned for tunnel
\* wg0: the first is flagged and the second is not
C17_Witness ==
    /\ Len(calls) = 2 /\ calls[2].op = "scan" /\ ~calls[2].ipv6 /\ cfg.vpn_iface = wg0
    /\ calls[2].routes = <<Route("0.0.0.0/1", eth0, NoName, "192.168.1.1"), Route("0.0.0.0/1", wg0, NoName, "")>>
    /\ calls[2].out = <<AlertLine(Route("0.0.0.0/1", eth0, NoName, "192.168.1.1"))>>

\* The addresses the resolver returned for the peers of a build, in peer order,
\* each with the port of its peer
RECURSIVE ResolvedOf(_, _, _)
ResolvedOf(peers, answers, i) ==
    IF i > Len(peers) THEN << >>
    ELSE LET ep == PeerEndpoint(peers[i])
             p == parse_endpoint(ep)
             ips == resolve_host_ips(p.host, answers[i]).ips
         IN (IF ep = << >> THEN << >> ELSE [j \in 1..Len(ips) |-> Ep(ips[j], p.port)])
            \o ResolvedOf(peers, answers, i + 1)

FirstAt(x, seq) == CHOOSE i \in 1..Len(seq) : seq[i] = x /\ \A j \in 1..(i - 1) : seq[j] # x

\* C18: a policy that was constructed has at least one endpoint, no two equal
\* in (ip, port, proto), no more endpoints than addresses were resolved over all
\* peers, and lists them in the order they were first seen; with no endpoint
\* gathered (no peer has an Endpoint key) construction fails with the
\* configuration error.
C18_EndpointsOfConstructedPolicy ==
    \A k \in 1..Len(calls) :
        calls[k].op = "build" =>
            /\ calls[k].res.ok =>
                 LET eps == calls[k].res.cfg.vpn_endpoints
                     all == ResolvedOf(calls[k].peers, calls[k].answers, 1)
                 IN /\ eps # << >>
                    /\ \A i, j \in 1..Len(eps) :
                          <<eps[i].ip, eps[i].port, eps[i].proto>> = <<eps[j].ip, eps[j].port, eps[j].proto>> => i = j
                    /\ Len(eps) <= Len(all)
                    /\ {eps[i] : i \in 1..Len(eps)} = {all[i] : i \in 1..Len(all)}
                    /\ \A i, j \in 1..Len(eps) : i < j => FirstAt(eps[i], all) < FirstAt(eps[j], all)
            /\ (\A i \in 1..Len(calls[k].peers) : "Endpoint" \notin DOMAIN calls[k].peers[i]) =>
                 calls[k].res = Raised("RouteGuardError")

\* Two peers, an address and a host name that resolves to another address and
\* to that same one: two endpoints out of three resolved addresses
C18_Witness ==
    /\ Len(calls) = 2 /\ calls[2].op = "build" /\ calls[2].res.ok
    /\ calls[2].peers = <<[PublicKey |-> "k", Endpoint |-> ip4a \o <<":", "0">> \o Port],
                          [PublicKey |-> "k", Endpoint |-> HostName \o <<":">> \o Port]>>
    /\ calls[2].answers[2].infos = <<ip4b, ip4a>>
    /\ calls[2].res.cfg.vpn_endpoints = <<Ep(ip4a, 51820), Ep(ip4b, 51820)>>

\* The CLI process has ended with an exit code
CliExited == front.ui = "cli" /\ front.at = "exited"

\* C19 as stated: the exit code of the CLI is 0, 1 or 130 and no other.
C19_OnlyThreeExitCodes ==
    CliExited => front.code \in {{0}, {1}, {InterruptCode}}

\* C19: the exit code of the CLI is 0 when the command succeeded (for run:
\* run() returned 0), 130 when an interrupt arrived before the runner installed
\* its handlers, 1 for every error that main() reports, and 2 when argparse
\* rejects the command line; --help ends with 0.
C19_ExitCodes ==
    CliExited =>
        /\ front.code = CASE front.why \in {"ok", "help"} -> {0}
                           [] front.why = "interrupt" -> {InterruptCode}
                           [] front.why = "usage" -> {2}
                           [] OTHER -> {1}
        /\ front.why \in {"ok", "help", "interrupt", "usage", "root", "deps", "config", "unexpected", "error"}
        /\ front.why = "interrupt" => ~signal_installed
        /\ front.cmd = "run" /\ pc = "done" => (front.code = {0} <=> outcome = "returned 0")
        /\ front.cmd = "run" /\ front.why = "ok" => pc = "done"

\* run ended with an error raised by run() and main() returned 1
C19_Witness ==
    /\ CliExited /\ front.cmd = "run" /\ pc = "done"
    /\ outcome # "returned 0" /\ front.code = {1}

\* The stop flag was set while run() was past its handler installation
StoppedAfterStart == hist.stopAt \notin {"none", "Created"}

\* C20 as stated: on the main thread, a run that got the stop flag set after
\* the handlers were installed returns 0.
C20_SignalledRunReturnsZero ==
    (opts.main_thread /\ StoppedAfterStart /\ Done) => outcome = "returned 0"

\* C20: the step that sets the stop flag (a delivered SIGINT or SIGTERM, or
\* request_stop) changes nothing else of the runner, so run() goes on from where
\* it was (the stop command that sent the signal removes the table itself); on
\* the main thread such a run ends through its whole teardown and returns 0
\* unless one of its steps raised; off the main thread no handler is ever
\* installed and only request_stop sets the flag.
C20_SignalsOnlySetTheFlag ==
    /\ [][(stop_event' # stop_event)
            => /\ stop_event'
               /\ UNCHANGED <<nftAvail, files, faulty, cfg, opts, signal_installed, pc, ret,
                               elapsed, warned, tick, exc, outcome, calls, front>>
               /\ table' # table => (signal_installed /\ table' = Absent)]_vars
    /\ []((opts.main_thread /\ StoppedAfterStart /\ Done)
            => /\ hist.td = TeardownPlan
               /\ outcome = "returned 0" <=> hist.failedIn = "none")
    /\ [](signal_installed => opts.main_thread)
    /\ [][(~opts.main_thread /\ stop_event' # stop_event) => RequestStop]_vars

\* the flag set in the monitoring phase of a run on the main thread, which went
\* through its teardown and returned 0
C20_Witness ==
    /\ opts.main_thread /\ signal_installed /\ hist.stopAt = "Monitoring"
    /\ Done /\ outcome = "returned 0" /\ hist.td = TeardownPlan

\* The candidates that can be written on this host
WritablePaths(env) == {i \in PathIdx : env[i] = "writable"}

\* C21: write_state stores the record at the first candidate that can be
\* written and returns that path; it falls back to the next candidate when the
\* first cannot be written.
C21_WriteFallsBackToWritable ==
    \A k \in 1..Len(calls) :
        (calls[k].op = "write" /\ WritablePaths(calls[k].env) # {}) =>
            /\ calls[k].err = "none"
            /\ calls[k].path \in WritablePaths(calls[k].env)
            /\ \A i \in WritablePaths(calls[k].env) : calls[k].path <= i

Reversed(q) == [i \in 1..Len(q) |-> q[Len(q) + 1 - i]]

C23_PortsAreUint16 ==
    \A k \in 1..Len(calls) :
        (calls[k].op = "build" /\ calls[k].res.ok) =>
            \A i \in 1..Len(calls[k].res.cfg.vpn_endpoints) :
                calls[k].res.cfg.vpn_endpoints[i].port \in 0..65535

\* C24: a run in monitor mode launches neither an apply nor a delete of the
\* managed table, on any path and with any cleanup setting, and no step of it
\* changes the table; a route scan, in any mode, changes nothing on the host.
C24_MonitorNeverMutates ==
    /\ [](cfg.mode = "monitor" => (hist.applies = 0 /\ ~hist.deletes))
    /\ [][(cfg.mode = "monitor" /\ pc' # pc /\ pc' # "killed") => table' = table]_vars
    /\ [][(pc = "scan" /\ pc' # pc /\ pc' # "killed") => UNCHANGED hostVars]_vars

\* a monitor run with cleanup set that scanned, ended with an error raised by a
\* scan, and left the table loaded by an earlier run in place
C24_Witness ==
    /\ cfg.mode = "monitor" /\ opts.cleanup_nft_on_exit /\ Done
    /\ hist.iterations /\ hist.failedIn = "scan" /\ outcome = "OSError"
    /\ hist.table0 # Absent /\ table = hist.table0

\* C25: in protect mode apply_nft_rules is entered only after _wait_for_iface
\* saw the interface; when the wait is used up the next step raises the
\* interface timeout, and a run that fails so has called no apply, written no
\* state and entered no loop iteration.
C25_ApplyAfterInterface ==
    /\ []((hist.applies > 0 \/ pc \in {"apply_rm", "apply_submit", "apply_verify"})
            => (cfg.mode = "protect" /\ hist.ifaceSeen))
    /\ [][(pc = "wait_iface" /\ elapsed = IfaceTimeoutHalfSec /\ pc' # pc /\ pc' # "killed")
            => (exc' = "InterfaceTimeout" /\ pc' = "td_nft")]_vars
    /\ [](exc = "InterfaceTimeout" =>
            /\ cfg.mode = "protect" /\ ~hist.ifaceSeen
            /\ hist.applies = 0 /\ hist.writes = 0 /\ ~hist.iterations
            /\ \A i \in PathIdx : files[i] # "mine")
    /\ []((Done /\ hist.failedIn = "wait_iface") => outcome = "InterfaceTimeout")

\* the interface never appeared: the run ended with the timeout and no apply
C25_Witness ==
    /\ Done /\ outcome = "InterfaceTimeout" /\ hist.applies = 0 /\ hist.writes = 0
    /\ hist.td = TeardownPlan

StartupApplyFailed == hist.failedIn = "apply:startup"

\* C26: when apply_nft_rules fails at startup the run is over: it writes no
\* state, enters no loop iteration and makes no scan, runs its whole teardown
\* and ends raising an error, the one of the apply unless the removal of the
\* table in the teardown raised after it.
C26_StartupApplyFailureAborts ==
    /\ [](StartupApplyFailed =>
            /\ cfg.mode = "protect" /\ exc # "none"
            /\ hist.writes = 0 /\ ~hist.iterations /\ hist.curScan = {} /\ hist.alerted = << >>
            /\ \A i \in PathIdx : files[i] # "mine"
            /\ pc \in {"td_nft", "td_down", "td_state", "done", "killed"})
    /\ []((StartupApplyFailed /\ Done) =>
            /\ hist.td = TeardownPlan
            /\ outcome = exc /\ outcome \in {"ApplyError", "OSError"})
    /\ [][(StartupApplyFailed /\ exc' # exc) => "nft" \in hist'.tdRaised]_vars

\* the script was rejected at startup: the run ended with the apply error after
\* its three teardown steps, with no table left
C26_Witness ==
    /\ StartupApplyFailed /\ Done /\ outcome = "ApplyError"
    /\ hist.td = <<"nft", "down", "state">> /\ table = Absent

\* A record of this run is on disk, whole or cut short
OwnRecord(f) == \E i \in PathIdx : f[i] \in {"mine", "partial"}

\* C27: write_state is called at most once in a run, and only after the mode
\* dispatch: in protect mode right after an apply whose verification found the
\* table, in monitor mode before any loop iteration, in off mode never; the loop
\* is entered only with the record written.
C27_StateWrittenOnceAfterDispatch ==
    /\ [][(pc' = "write_state" /\ pc # "write_state") =>
            /\ hist.writes = 0 /\ ~hist.iterations /\ ~OwnRecord(files)
            /\ \/ cfg.mode = "monitor" /\ pc = "dispatch"
               \/ /\ cfg.mode = "protect" /\ pc = "apply_verify" /\ ret = "startup"
                  /\ hist.applies = 1 /\ hist.ifaceSeen
                  /\ routeguard_table_exists(nftAvail, Visible(table))]_vars
    /\ [][files' # files /\ OwnRecord(files') => (pc = "write_state" /\ pc' # "write_state")]_vars
    /\ [][(pc = "write_state" /\ pc' # pc) => pc' \in {"loop_check", "td_nft", "killed"}]_vars
    /\ [](hist.writes <= 1)
    /\ [](OwnRecord(files) => (cfg.mode \in {"protect", "monitor"}
                                /\ (cfg.mode = "protect" => hist.applies >= 1)))
    /\ [](hist.iterations => hist.writes = 1)
    /\ [](cfg.mode = "off" => (hist.writes = 0 /\ pc # "write_state"))

\* protect mode in the loop: the record is there and the ruleset of this run is loaded
C27_Witness ==
    /\ cfg.mode = "protect" /\ hist.writes = 1 /\ hist.iterations
    /\ files[1] = "mine" /\ table = {build_nft_script(cfg)}

\* C28: while a run is in its monitoring loop, the managed table and the state
\* record are changed by steps of the runner only.
C28_RunnerIsOnlyWriter ==
    [][(Phase(pc) \in {"Monitoring", "Sleeping"} /\ (table' # table \/ files' # files))
          => (pc' # pc /\ pc' # "killed")]_vars

\* The candidate paths at which a file exists
Existing(f) == {i \in PathIdx : f[i] # "none"}

\* C29: read_state returns the parsed content of the first candidate path that
\* exists, and nothing when no candidate exists or that file does not parse; so a
\* read that follows a successful write, with only reads in between, returns
\* the record that was written.
C29_ReadFirstExisting ==
    LET n == Len(calls)
    IN calls[n].op = "read" =>
         /\ Existing(files) = {} => calls[n].got = "none"
         /\ \A p \in Existing(files) :
               (\A q \in Existing(files) : p <= q) =>
                   calls[n].got = IF files[p] = "partial" THEN "none" ELSE files[p]
         /\ \A j \in 2..(n - 1) :
               (/\ calls[j].op = "write" /\ calls[j].err = "none"
                /\ \A m \in (j + 1)..(n - 1) : calls[m].op = "read")
               => calls[n].got = "mine"

\* the record written to the first path, a file of an earlier run at the
\* second: the read returns the record just written
C29_Witness ==
    /\ Len(calls) = 3 /\ calls[2].op = "write" /\ calls[2].path = 1
    /\ calls[3].op = "read" /\ calls[3].got = "mine"
    /\ files[2] = "stale"

\* The positions in a sequence of messages of those put by run r
PutBy(q, r) == {i \in 1..Len(q) : q[i].by = r}
NoticesOf(q, r) == {i \in PutBy(q, r) : q[i].text = STOPPED}

\* C30: what the worker reports reaches the host through the queue and in the
\* order it was put (nothing is lost, doubled or overtaken); each worker that was started puts the termination
\* notice once, when its run has returned or raised, and after every line of
\* that run.
C30_WorkerReportsThroughQueue ==
    /\ hist.sent = hist.taken \o calls
    /\ Len(hist.shown) = Len(hist.taken)
    /\ \A i \in 1..Len(hist.shown) :
         /\ hist.shown[i].by = hist.sent[i].by
         /\ hist.shown[i].text = IF hist.sent[i].text = STOPPED THEN "session ended" ELSE hist.sent[i].text
    /\ \A r \in 1..MaxRuns :
         /\ Cardinality(NoticesOf(hist.sent, r)) =
               (IF r < front.run \/ (r = front.run /\ front.at = "idle") THEN 1 ELSE 0)
         /\ \A n \in NoticesOf(hist.sent, r) : \A i \in PutBy(hist.sent, r) : i <= n
         /\ \A n \in NoticesOf(hist.sent, r) :
               \E i \in PutBy(hist.sent, r) :
                   /\ i < n /\ hist.sent[i].text \in {"stopped with code", "ERROR"}
                   /\ \A j \in PutBy(hist.sent, r) : j <= i \/ j = n

\* the second worker raised after its log lines: the host has shown the lines
\* of both runs and the end of both sessions
C30_Witness ==
    /\ front.run = 2 /\ front.at = "idle" /\ calls = << >>
    /\ \E i \in 1..Len(hist.sent) : hist.sent[i] = Msg("ERROR", 2)
    /\ Cardinality({i \in 1..Len(hist.shown) : hist.shown[i].text = "session ended"}) = 2
    /\ Cardinality(PutBy(hist.sent, 2)) = MaxLogLines + 2


-----------------------------------------------------------------------------
(* The sections of a file, read off its lines without the parser's loop *)

FileLine(ls, i) == Strip(ls[i])
HeadersOf(ls) == {i \in 1..Len(ls) : ~IsSkipped(FileLine(ls, i)) /\ IsHeader(FileLine(ls, i))}
KeyLinesOf(ls) ==
    {i \in 1..Len(ls) : /\ ~IsSkipped(FileLine(ls, i)) /\ ~IsHeader(FileLine(ls, i))
                          /\ CountOf("=", FileLine(ls, i)) > 0}
\* the header a line stands under, 0 before the first header
HeaderOver(ls, i) ==
    IF \E h \in HeadersOf(ls) : h < i
    THEN CHOOSE h \in HeadersOf(ls) : h < i /\ \A g \in HeadersOf(ls) : g < i => g <= h
    ELSE 0
HeadersNamed(ls, name) == {h \in HeadersOf(ls) : SectionName(FileLine(ls, h)) = name}
\* the map of a set of key lines: each key with the value of its last line
MapOfLines(ls, at) ==
    [k \in {KeyOf(FileLine(ls, i)) : i \in at} |->
        ValueOf(FileLine(ls, CHOOSE i \in at : /\ KeyOf(FileLine(ls, i)) = k
                                                /\ \A j \in at : KeyOf(FileLine(ls, j)) = k => j <= i))]
NthPeerHeader(ls, n) ==
    CHOOSE h \in HeadersNamed(ls, peerName) : Cardinality({g \in HeadersNamed(ls, peerName) : g <= h}) = n

\* C31: a key line goes to the section it stands in and to no other: the
\* interface map holds the key lines under interface headers, there is one peer
\* map per peer header (in any letter case) in file order holding the key
\* lines under that header, lines before any header or under another section
\* are in no map, the last line of a key gives its value, and the parse
\* fails exactly when the file is missing or has no peer header.
C31_KeysGoToTheirSection ==
    Len(calls) = 2 /\ calls[2].op = "parse" =>
        LET ls == calls[2].lines
            res == calls[2].res
        IN /\ res.ok <=> (calls[2].exists /\ HeadersNamed(ls, peerName) # {})
           /\ ~res.ok => res.error = "RouteGuardError"
           /\ res.ok =>
                /\ res.interface = MapOfLines(ls, {i \in KeyLinesOf(ls) :
                                            HeaderOver(ls, i) \in HeadersNamed(ls, interfaceName)})
                /\ Len(res.peers) = Cardinality(HeadersNamed(ls, peerName))
                /\ \A n \in 1..Len(res.peers) :
                      res.peers[n] = MapOfLines(ls, {i \in KeyLinesOf(ls) :
                                            HeaderOver(ls, i) = NthPeerHeader(ls, n)})

\* a file with a key line before any header, a peer header in capitals and a
\* key given twice under it was parsed
C31_Witness ==
    /\ Len(calls) = 2 /\ calls[2].op = "parse" /\ calls[2].res.ok
    /\ \E i \in KeyLinesOf(calls[2].lines) : HeaderOver(calls[2].lines, i) = 0
    /\ \E h \in HeadersNamed(calls[2].lines, peerName) :
          /\ FileLine(calls[2].lines, h)[4] = "E"
          /\ Cardinality({i \in KeyLinesOf(calls[2].lines) : HeaderOver(calls[2].lines, i) = h}) = 2
    /\ \E n \in 1..Len(calls[2].res.peers) : DOMAIN calls[2].res.peers[n] = {<<"a">>}


\* C32: the poll interval of the policy is at least 1 whatever interval the
\* caller gave, a sleep phase makes at most 10 * poll_interval_sec ticks, and
\* every tick is entered from a test that found the stop flag not set.
C32_IntervalClampedSleepBounded ==
    /\ [](cfg.poll_interval_sec >= 1)
    /\ [](tick <= TicksPerSecond * cfg.poll_interval_sec)
    /\ [][pc # "tick_sleep" /\ pc' = "tick_sleep" =>
            /\ pc = "tick_check" /\ ~stop_event
            /\ tick < TicksPerSecond * cfg.poll_interval_sec]_vars
    /\ [][tick' # tick => (pc = "tick_sleep" /\ tick' = tick + 1) \/ tick' = 0]_vars

\* a sleep phase of the longest interval ran to its last tick
C32_Witness ==
    /\ cfg.poll_interval_sec = MaxPoll /\ pc = "tick_check"
    /\ tick = TicksPerSecond * MaxPoll /\ ~stop_event


\* the step in which apply_nft_rules raises its error
ApplyFails == exc = "none" /\ exc' = "ApplyError"

\* C33: apply does not keep the earlier ruleset when it fails: without the nft
\* binary the call fails and leaves the table as it is; with the binary, a
\* privileged caller whose submission or verification fails is left with no
\* table, and an unprivileged caller, whose every nft command is refused, with
\* the table as it was.
C33_FailedApplyKeepsNoRules ==
    /\ [][pc = "apply_rm" /\ ~nftAvail => ApplyFails /\ table' = table]_vars
    /\ [][ApplyFails /\ nftAvail =>
            /\ pc \in {"apply_submit", "apply_verify"}
            /\ IF front.root THEN table' = Absent ELSE table' = table]_vars
    /\ [](pc = "write_state" /\ table # Absent => table = {build_nft_script(cfg)})

\* C33 as stated: with the binary, a failed apply leaves no table.
C33_FailedApplyLeavesNoTable ==
    /\ [][pc = "apply_rm" /\ ~nftAvail => ApplyFails /\ table' = table]_vars
    /\ [][ApplyFails /\ nftAvail => table' = Absent]_vars

\* a privileged call that found a table failed at the submission and left none
C33_Witness ==
    /\ nftAvail /\ front.root /\ calls[Len(calls)].table # Absent
    /\ pc = "td_nft" /\ exc = "ApplyError" /\ hist.failedIn = "apply:startup"
    /\ table = Absent


\* C34: once routeguard-cli stop has signalled a runner in mode protect (the
\* stop flag is set by nothing else here) and returned, and that runner has
\* ended, the managed table is absent, whatever cleanup_nft_on_exit is.
C34_TableAbsentAfterStop ==
    cfg.mode = "protect" /\ stop_event /\ pc = "done" => table = Absent


\* C35: from the write of its state until its own teardown begins, the runner
\* finds the state record on disk with its own pid, also while another runner
\* instance starts and ends on the host.
C35_OwnStateWhileRunning ==
    hist.writes = 1 /\ Phase(pc) \in {"Monitoring", "Sleeping"} => read_state(files) = "mine"


\* run() was called with the stop flag already set
StoppedBeforeRun == hist.stopAt = "Created"

StartupSteps == {"wg_up", "dispatch", "wait_iface", "apply:startup", "write_state"}

\* C36 as stated: a run started with the stop flag set goes through its startup,
\* makes no loop iteration, runs its teardown and returns 0.
C36_PresetStopReturnsZero ==
    /\ [][stop_event => stop_event']_vars
    /\ [](StoppedBeforeRun /\ Done /\ cfg.mode \in {"monitor", "protect"} =>
            /\ ~hist.iterations /\ hist.writes = 1 /\ hist.td = TeardownPlan
            /\ outcome = "returned 0")

\* C36: the stop flag is never cleared; a run started with the flag set does
\* not look at it before the loop: it begins with the tunnel bring-up (if
\* asked for), in protect mode waits for the interface and applies, writes its
\* state, makes no loop iteration (no heal, no scan, no alert, no sleep), runs
\* its whole teardown and returns 0, unless a startup step fails, and then it
\* raises that step's error after the teardown.
C36_PresetStopRunsStartup ==
    /\ [][stop_event => stop_event']_vars
    /\ [][StoppedBeforeRun /\ pc = "created" /\ pc' # pc =>
            pc' = IF opts.auto_up_vpn THEN "wg_up" ELSE "dispatch"]_vars
    /\ [](StoppedBeforeRun =>
            /\ pc \notin {"heal_check", "scan", "tick_check", "tick_sleep"}
            /\ ~hist.iterations /\ hist.curScan = {} /\ hist.alerted = << >> /\ ret = "startup")
    /\ [](StoppedBeforeRun /\ Done /\ cfg.mode \in {"monitor", "protect"} =>
            /\ hist.td = TeardownPlan
            /\ \/ /\ outcome = "returned 0" /\ hist.failedIn = "none" /\ hist.writes = 1
                  /\ cfg.mode = "protect" => hist.ifaceSeen /\ hist.applies = 1
               \/ /\ outcome # "returned 0" /\ hist.failedIn \in StartupSteps
                  /\ hist.failedIn # "write_state" => hist.writes = 0)

\* a protect run started with the flag set, with the tunnel brought up, that
\* applied, wrote its state and returned 0 without an iteration
C36_Witness ==
    /\ StoppedBeforeRun /\ Done /\ cfg.mode = "protect" /\ opts.auto_up_vpn
    /\ outcome = "returned 0" /\ hist.applies = 1 /\ hist.writes = 1 /\ ~hist.iterations

====
